---- MODULE Spec2Model ----
(***************************************************************************)
(* PebbleDB request admission pipeline.                                    *)
(*                                                                         *)
(* Part I   the tenant connection registry of package database             *)
(*          (projectDBs, GetProjectDB, CloseProjectDB, CloseAllProjectDBs) *)
(*          run by concurrent callers, one step per lock operation or      *)
(*          critical-section statement.                                    *)
(* Part II  the cookie/JWT authentication middleware of package auth       *)
(*          (Middleware, UpdateAuthCookie), one request at a time, one     *)
(*          step per stage of the handler.                                 *)
(* Part III the server of package server (routes, middlewares, Start, the  *)
(*          method dispatcher, handleError), the middlewares of package    *)
(*          server, the tenant middleware of package database and the      *)
(*          pipeline handlers.SetupRoutes assembles, one request at a      *)
(*          time, one step per stage of the chain.                         *)
(***************************************************************************)
EXTENDS Integers, Sequences, FiniteSets, TLC

(***************************************************************************)
(* Bounds of the model.                                                    *)
(***************************************************************************)
NProcs == 3        \* concurrent callers of the registry
MaxCalls == 3      \* registry operations started in one behaviour
MaxRegistrations == 3  \* Use and route registrations made one at a time
MaxFairCalls == 2  \* registry operations started in one fairly scheduled behaviour

Procs == 1..NProcs
Keys == {"u1/p1", "u2/p1"}

NoDB == 0          \* the nil *DB
NoProc == 0        \* nobody holds the write side of the lock
NoErr == 0         \* the nil error of a Close; the error of closing handle h is h

VARIABLES
    \* ---- Part I: registry ----
    conns,        \* projectDBs.conns: key -> handle id, NoDB when absent
    rwReaders,    \* callers holding projectDBs.RLock
    rwWriter,     \* caller that has entered projectDBs.Lock (pending or holding)
    pc,           \* position of each caller
    opKey,        \* the key argument of the call in progress
    localDB,      \* the local variable db of the call in progress
    lastErr,      \* the local variable lastErr (or err) of a close call
    ret,          \* what the caller's last call returned
    handles,      \* every *DB NewDB has constructed: <<[key, open, closes, failed]>>
    newDBCalls,   \* key -> number of NewDB invocations
    newDBFails,   \* key -> number of NewDB invocations that returned an error
    getErrs,      \* key -> number of GetProjectDB calls that returned an error
    got,          \* key -> handles GetProjectDB has returned for it
    calls,        \* registry operations started so far
    teardown,     \* a CloseProjectDB or CloseAllProjectDBs call has started
    overlap,      \* every call so far began before any call had returned
    \* ---- Part II: auth middleware ----
    apc,          \* position of the request in the middleware
    req,          \* the request: path and cookie
    env,          \* what the identity provider answers while the request runs
    jwks,         \* the key set FetchJWKS returned
    decoded,      \* cookieValue, then decodedBytes, as the decode steps go
    tokenData,    \* the decoded bundle (map[string]interface{})
    accessToken,  \* the local accessToken
    token,        \* the token VerifyJWT returned
    refreshResp,  \* the response RefreshAccessToken returned
    setCookie,    \* the Set-Cookie header the middleware wrote
    result,       \* the HTTPError the middleware returned, or what next returned
    ctxUser,      \* the value bound under types.UserContextKey when next ran
    trail,        \* the stages the request went through, in order
    jwksFetches,  \* FetchJWKS calls of this request
    cookieReads,  \* r.Cookie calls of this request
    refreshCalls, \* RefreshAccessToken calls of this request
    verifyCalls,  \* VerifyJWT calls of this request
    nextCalls,    \* invocations of next for this request
    bindings,     \* every identity the middleware has bound, with its token
    \* ---- Part III: server ----
    srv,          \* the *Server: its routes and its middlewares
    started,      \* Start has registered the patterns with the mux
    mux,          \* s.mux: pattern -> the handler Start registered for it
    spc,          \* position of the request in the server
    sreq,         \* the request: method, path, and query and body once read
    muxPattern,      \* the pattern the mux matched the request's path to
    depth,        \* the stage of the chain that is executing
    dir,          \* going in, in the terminal handler, or returning
    retErr,       \* the error the stage below returned
    route,        \* index of the route the dispatcher selected, 0 when none
    w,            \* the http.ResponseWriter: status, body, headers
    ctx,          \* the request context: user, working directory, database
    events,       \* what ran for the request, in order
    translations, \* the calls of handleError for the request
    projectDBs,   \* the registry as the tenant middleware finds it
    opened,       \* the handles NewDB has opened for the tenant middleware
    resolved,     \* the connections the tenant middleware has injected
    boot,         \* main: before validation, past it, or exited by log.Fatal
    config,       \* the configuration LoadConfig returned
    atStart       \* the registry as the request in progress found it

poolVars == <<conns, rwReaders, rwWriter, pc, opKey, localDB, lastErr, ret,
              handles, newDBCalls, newDBFails, getErrs, got, calls, teardown,
              overlap>>
authVars == <<apc, req, env, jwks, decoded, tokenData, accessToken, token,
              refreshResp, setCookie, result, ctxUser, trail, jwksFetches,
              cookieReads, refreshCalls, verifyCalls, nextCalls, bindings>>
serverVars == <<srv, started, mux, spc, sreq, muxPattern, depth,
                dir, retErr, route, w, ctx, events, translations, projectDBs,
                opened, resolved, boot, config, atStart>>
vars == <<poolVars, authVars, serverVars>>

(***************************************************************************)
(* Part I.  The tenant connection registry.                                *)
(***************************************************************************)

HandleIds == 1..Len(handles)

\* var projectDBs = struct{ sync.RWMutex; conns map[string]*DB }{conns: make(...)}
InitPool ==
    /\ conns = [k \in Keys |-> NoDB]
    /\ rwReaders = {}
    /\ rwWriter = NoProc
    /\ pc = [p \in Procs |-> "idle"]
    /\ opKey = [p \in Procs |-> "u1/p1"]
    /\ localDB = [p \in Procs |-> NoDB]
    /\ lastErr = [p \in Procs |-> NoErr]
    /\ ret = [p \in Procs |-> [op |-> "none", db |-> NoDB, err |-> FALSE, slow |-> FALSE,
                              closeErr |-> NoErr]]
    /\ handles = <<>>
    /\ newDBCalls = [k \in Keys |-> 0]
    /\ newDBFails = [k \in Keys |-> 0]
    /\ getErrs = [k \in Keys |-> 0]
    /\ got = [k \in Keys |-> {}]
    /\ calls = 0
    /\ teardown = FALSE
    /\ overlap = TRUE

ghostPool == <<newDBCalls, newDBFails, getErrs, got>>

\* no call has returned yet
NoneReturned == \A q \in Procs : ret[q].op = "none"

\* a read lock that one reader holds at a time
RLockOneAtATime(p) ==
    /\ rwWriter = NoProc
    /\ rwReaders = {}
    /\ rwReaders' = rwReaders \cup {p}
    /\ UNCHANGED rwWriter

\* sync.RWMutex.RLock: blocks while a writer holds or is waiting for the lock
RLock(p) ==
    /\ rwWriter = NoProc
    /\ rwReaders' = rwReaders \cup {p}
    /\ UNCHANGED rwWriter

\* sync.RWMutex.RUnlock
RUnlock(p) ==
    /\ rwReaders' = rwReaders \ {p}
    /\ UNCHANGED rwWriter

\* sync.RWMutex.Lock, first half: take the writer mutex, announcing the writer
LockEnter(p) ==
    /\ rwWriter = NoProc
    /\ rwWriter' = p
    /\ UNCHANGED rwReaders

\* sync.RWMutex.Lock, second half: wait until the active readers have left
LockAcquired(p) ==
    /\ rwWriter = p
    /\ rwReaders = {}

\* sync.RWMutex.Unlock
Unlock(p) ==
    /\ rwWriter' = NoProc
    /\ UNCHANGED rwReaders

\* return db, err from GetProjectDB
GetReturn(p, db, err, slow) ==
    /\ ret' = [ret EXCEPT ![p] = [op |-> "get", db |-> db, err |-> err, slow |-> slow,
                                  closeErr |-> NoErr]]
    /\ got' = IF db # NoDB THEN [got EXCEPT ![opKey[p]] = @ \cup {db}] ELSE got
    /\ getErrs' = IF err THEN [getErrs EXCEPT ![opKey[p]] = @ + 1] ELSE getErrs
    /\ pc' = [pc EXCEPT ![p] = "idle"]
    /\ localDB' = [localDB EXCEPT ![p] = NoDB]

\* a caller enters GetProjectDB(basePath, key)
GetCall(p, k) ==
    /\ pc[p] = "idle"
    /\ calls < MaxCalls
    /\ calls' = calls + 1
    /\ overlap' = (overlap /\ NoneReturned)
    /\ pc' = [pc EXCEPT ![p] = "g_rlock"]
    /\ opKey' = [opKey EXCEPT ![p] = k]
    /\ UNCHANGED <<conns, rwReaders, rwWriter, localDB, lastErr, ret, handles,
                   ghostPool, teardown>>
    /\ UNCHANGED <<authVars, serverVars>>

\* a fast path that reads the map without taking the read lock
GetRLockSkipped(p) ==
    /\ pc[p] = "g_rlock"
    /\ pc' = [pc EXCEPT ![p] = "g_fast"]
    /\ UNCHANGED <<conns, rwReaders, rwWriter, opKey, localDB, lastErr, ret, handles,
                   ghostPool, calls, teardown, overlap>>
    /\ UNCHANGED <<authVars, serverVars>>

\* projectDBs.RLock()
GetRLock(p) ==
    /\ pc[p] = "g_rlock"
    /\ RLock(p)
    /\ pc' = [pc EXCEPT ![p] = "g_fast"]
    /\ UNCHANGED <<conns, opKey, localDB, lastErr, ret, handles, ghostPool,
                   calls, teardown, overlap>>
    /\ UNCHANGED <<authVars, serverVars>>

\* if db, ok := projectDBs.conns[key]; ok { RUnlock; return db, nil }; RUnlock
GetFast(p) ==
    /\ pc[p] = "g_fast"
    /\ RUnlock(p)
    /\ IF conns[opKey[p]] # NoDB
          THEN /\ GetReturn(p, conns[opKey[p]], FALSE, FALSE)
               /\ UNCHANGED <<newDBCalls, newDBFails>>
          ELSE /\ pc' = [pc EXCEPT ![p] = "g_lock"]
               /\ UNCHANGED <<ret, localDB, ghostPool>>
    /\ UNCHANGED <<conns, opKey, lastErr, handles, calls, teardown, overlap>>
    /\ UNCHANGED <<authVars, serverVars>>

\* projectDBs.Lock(), entering
GetLock(p) ==
    /\ pc[p] = "g_lock"
    /\ LockEnter(p)
    /\ pc' = [pc EXCEPT ![p] = "g_lockwait"]
    /\ UNCHANGED <<conns, opKey, localDB, lastErr, ret, handles, ghostPool,
                   calls, teardown, overlap>>
    /\ UNCHANGED <<authVars, serverVars>>

\* projectDBs.Lock() returns
GetLocked(p) ==
    /\ pc[p] = "g_lockwait"
    /\ LockAcquired(p)
    /\ pc' = [pc EXCEPT ![p] = "g_dcheck"]
    /\ UNCHANGED <<conns, rwReaders, rwWriter, opKey, localDB, lastErr, ret,
                   handles, ghostPool, calls, teardown, overlap>>
    /\ UNCHANGED <<authVars, serverVars>>

\* a double check that always misses (the re-check under the write lock dropped)
GetDoubleCheckDropped(p) ==
    /\ pc[p] = "g_dcheck"
    /\ pc' = [pc EXCEPT ![p] = "g_open"]
    /\ newDBCalls' = [newDBCalls EXCEPT ![opKey[p]] = @ + 1]
    /\ UNCHANGED <<conns, rwReaders, rwWriter, opKey, localDB, lastErr, ret,
                   handles, newDBFails, getErrs, got, calls, teardown, overlap>>
    /\ UNCHANGED <<authVars, serverVars>>

\* a double check that gives the lock up before NewDB is called
GetDoubleCheckUnlocking(p) ==
    /\ pc[p] = "g_dcheck"
    /\ Unlock(p)
    /\ IF conns[opKey[p]] # NoDB
          THEN /\ GetReturn(p, conns[opKey[p]], FALSE, TRUE)
               /\ UNCHANGED <<newDBCalls, newDBFails>>
          ELSE /\ pc' = [pc EXCEPT ![p] = "g_open"]
               /\ newDBCalls' = [newDBCalls EXCEPT ![opKey[p]] = @ + 1]
               /\ UNCHANGED <<ret, localDB, newDBFails, getErrs, got>>
    /\ UNCHANGED <<conns, opKey, lastErr, handles, calls, teardown, overlap>>
    /\ UNCHANGED <<authVars, serverVars>>

\* if db, ok := projectDBs.conns[key]; ok { return db, nil } (deferred Unlock);
\* otherwise build cfg and call NewDB(cfg)
GetDoubleCheck(p) ==
    /\ pc[p] = "g_dcheck"
    /\ IF conns[opKey[p]] # NoDB
          THEN /\ Unlock(p)
               /\ GetReturn(p, conns[opKey[p]], FALSE, TRUE)
               /\ UNCHANGED <<newDBCalls, newDBFails>>
          ELSE /\ pc' = [pc EXCEPT ![p] = "g_open"]
               /\ newDBCalls' = [newDBCalls EXCEPT ![opKey[p]] = @ + 1]
               /\ UNCHANGED <<rwReaders, rwWriter, ret, localDB, newDBFails,
                              getErrs, got>>
    /\ UNCHANGED <<conns, opKey, lastErr, handles, calls, teardown, overlap>>
    /\ UNCHANGED <<authVars, serverVars>>

\* NewDB: sql.Open and Ping succeed, return &DB{conn, path}, nil
NewDBOk(p) ==
    /\ pc[p] = "g_open"
    /\ handles' = Append(handles, [key |-> opKey[p], open |-> TRUE, closes |-> 0,
                                   failed |-> FALSE])
    /\ localDB' = [localDB EXCEPT ![p] = Len(handles) + 1]
    /\ pc' = [pc EXCEPT ![p] = "g_store"]
    /\ UNCHANGED <<conns, rwReaders, rwWriter, opKey, lastErr, ret, ghostPool,
                   calls, teardown, overlap>>
    /\ UNCHANGED <<authVars, serverVars>>

\* an error return that leaves the write lock held
NewDBErrKeepingLock(p) ==
    /\ pc[p] = "g_open"
    /\ newDBFails' = [newDBFails EXCEPT ![opKey[p]] = @ + 1]
    /\ UNCHANGED <<rwReaders, rwWriter>>
    /\ GetReturn(p, NoDB, TRUE, TRUE)
    /\ UNCHANGED <<conns, opKey, lastErr, handles, newDBCalls, calls, teardown, overlap>>
    /\ UNCHANGED <<authVars, serverVars>>

\* NewDB: sql.Open or Ping fails (the connection is closed again), return nil, err;
\* GetProjectDB: if err != nil { return nil, err } (deferred Unlock)
NewDBErr(p) ==
    /\ pc[p] = "g_open"
    /\ newDBFails' = [newDBFails EXCEPT ![opKey[p]] = @ + 1]
    /\ Unlock(p)
    /\ GetReturn(p, NoDB, TRUE, TRUE)
    /\ UNCHANGED <<conns, opKey, lastErr, handles, newDBCalls, calls, teardown, overlap>>
    /\ UNCHANGED <<authVars, serverVars>>

\* a store that returns the new handle without registering it
GetStoreDropped(p) ==
    /\ pc[p] = "g_store"
    /\ Unlock(p)
    /\ GetReturn(p, localDB[p], FALSE, TRUE)
    /\ UNCHANGED <<conns, opKey, lastErr, handles, newDBCalls, newDBFails, calls,
                   teardown, overlap>>
    /\ UNCHANGED <<authVars, serverVars>>

\* a store that keeps one connection at a time: the other keys are dropped
GetStoreEvicting(p) ==
    /\ pc[p] = "g_store"
    /\ conns' = [k \in Keys |-> IF k = opKey[p] THEN localDB[p] ELSE NoDB]
    /\ Unlock(p)
    /\ GetReturn(p, localDB[p], FALSE, TRUE)
    /\ UNCHANGED <<opKey, lastErr, handles, newDBCalls, newDBFails, calls, teardown, overlap>>
    /\ UNCHANGED <<authVars, serverVars>>

\* projectDBs.conns[key] = db; return db, nil (deferred Unlock)
GetStore(p) ==
    /\ pc[p] = "g_store"
    /\ conns' = [conns EXCEPT ![opKey[p]] = localDB[p]]
    /\ Unlock(p)
    /\ GetReturn(p, localDB[p], FALSE, TRUE)
    /\ UNCHANGED <<opKey, lastErr, handles, newDBCalls, newDBFails, calls, teardown, overlap>>
    /\ UNCHANGED <<authVars, serverVars>>

\* (*DB).Close: the connection pool is closed whatever error sql.DB.Close reports
\* (failed: this Close returned an error)
CloseHandle(h, e) ==
    [handles EXCEPT ![h] = [@ EXCEPT !.open = FALSE, !.closes = @ + 1, !.failed = e]]

\* return err from CloseProjectDB or CloseAllProjectDBs (deferred Unlock)
CloseReturn(p, op, err) ==
    /\ Unlock(p)
    /\ ret' = [ret EXCEPT ![p] = [op |-> op, db |-> NoDB, err |-> err # NoErr,
                                  slow |-> FALSE, closeErr |-> err]]
    /\ pc' = [pc EXCEPT ![p] = "idle"]
    /\ localDB' = [localDB EXCEPT ![p] = NoDB]
    /\ lastErr' = [lastErr EXCEPT ![p] = NoErr]

\* a caller enters CloseProjectDB(key) and calls projectDBs.Lock()
CloseCall(p, k) ==
    /\ pc[p] = "idle"
    /\ calls < MaxCalls
    /\ calls' = calls + 1
    /\ overlap' = (overlap /\ NoneReturned)
    /\ teardown' = TRUE
    /\ pc' = [pc EXCEPT ![p] = "c_lock"]
    /\ opKey' = [opKey EXCEPT ![p] = k]
    /\ UNCHANGED <<conns, rwReaders, rwWriter, localDB, lastErr, ret, handles,
                   ghostPool>>
    /\ UNCHANGED <<authVars, serverVars>>

\* projectDBs.Lock(), entering (CloseProjectDB and CloseAllProjectDBs)
CloseLock(p) ==
    /\ pc[p] \in {"c_lock", "a_lock"}
    /\ LockEnter(p)
    /\ pc' = [pc EXCEPT ![p] = IF pc[p] = "c_lock" THEN "c_lockwait" ELSE "a_lockwait"]
    /\ UNCHANGED <<conns, opKey, localDB, lastErr, ret, handles, ghostPool,
                   calls, teardown, overlap>>
    /\ UNCHANGED <<authVars, serverVars>>

\* projectDBs.Lock() returns (CloseProjectDB and CloseAllProjectDBs)
CloseLocked(p) ==
    /\ pc[p] \in {"c_lockwait", "a_lockwait"}
    /\ LockAcquired(p)
    /\ pc' = [pc EXCEPT ![p] = IF pc[p] = "c_lockwait" THEN "c_body" ELSE "a_loop"]
    /\ UNCHANGED <<conns, rwReaders, rwWriter, opKey, localDB, lastErr, ret,
                   handles, ghostPool, calls, teardown, overlap>>
    /\ UNCHANGED <<authVars, serverVars>>

\* a CloseProjectDB that forgets db.Close() before deleting the entry
CloseBodyNoClose(p) ==
    /\ pc[p] = "c_body"
    /\ IF conns[opKey[p]] # NoDB
          THEN /\ localDB' = [localDB EXCEPT ![p] = conns[opKey[p]]]
               /\ lastErr' = [lastErr EXCEPT ![p] = NoErr]
               /\ pc' = [pc EXCEPT ![p] = "c_delete"]
               /\ UNCHANGED <<rwReaders, rwWriter, ret, handles>>
          ELSE /\ CloseReturn(p, "close", NoErr)
               /\ UNCHANGED handles
    /\ UNCHANGED <<conns, opKey, ghostPool, calls, teardown, overlap>>
    /\ UNCHANGED <<authVars, serverVars>>

\* if db, ok := projectDBs.conns[key]; ok { err := db.Close() ... }; return nil
CloseBody(p) ==
    /\ pc[p] = "c_body"
    /\ IF conns[opKey[p]] # NoDB
          THEN /\ localDB' = [localDB EXCEPT ![p] = conns[opKey[p]]]
               /\ \E e \in BOOLEAN :
                     /\ handles' = CloseHandle(conns[opKey[p]], e)
                     /\ lastErr' = [lastErr EXCEPT ![p] =
                                        IF e THEN conns[opKey[p]] ELSE NoErr]
               /\ pc' = [pc EXCEPT ![p] = "c_delete"]
               /\ UNCHANGED <<rwReaders, rwWriter, ret>>
          ELSE /\ CloseReturn(p, "close", NoErr)
               /\ UNCHANGED handles
    /\ UNCHANGED <<conns, opKey, ghostPool, calls, teardown, overlap>>
    /\ UNCHANGED <<authVars, serverVars>>

\* a CloseProjectDB that keeps the entry when db.Close() reported an error
CloseDeleteUnlessError(p) ==
    /\ pc[p] = "c_delete"
    /\ conns' = IF lastErr[p] = NoErr THEN [conns EXCEPT ![opKey[p]] = NoDB] ELSE conns
    /\ CloseReturn(p, "close", lastErr[p])
    /\ UNCHANGED <<opKey, handles, ghostPool, calls, teardown, overlap>>
    /\ UNCHANGED <<authVars, serverVars>>

\* delete(projectDBs.conns, key); return err
CloseDelete(p) ==
    /\ pc[p] = "c_delete"
    /\ conns' = [conns EXCEPT ![opKey[p]] = NoDB]
    /\ CloseReturn(p, "close", lastErr[p])
    /\ UNCHANGED <<opKey, handles, ghostPool, calls, teardown, overlap>>
    /\ UNCHANGED <<authVars, serverVars>>

\* a caller enters CloseAllProjectDBs() and calls projectDBs.Lock()
CloseAllCall(p) ==
    /\ pc[p] = "idle"
    /\ calls < MaxCalls
    /\ calls' = calls + 1
    /\ overlap' = (overlap /\ NoneReturned)
    /\ teardown' = TRUE
    /\ pc' = [pc EXCEPT ![p] = "a_lock"]
    /\ UNCHANGED <<conns, rwReaders, rwWriter, opKey, localDB, lastErr, ret,
                   handles, ghostPool>>
    /\ UNCHANGED <<authVars, serverVars>>

\* one iteration of: for key, db := range projectDBs.conns {
\*     if err := db.Close(); err != nil { lastErr = err }; delete(conns, key) }
\* (a Go map is ranged over in no particular order)
CloseAllStep(p) ==
    /\ pc[p] = "a_loop"
    /\ \E k \in Keys :
          /\ conns[k] # NoDB
          /\ conns' = [conns EXCEPT ![k] = NoDB]
          /\ \E e \in BOOLEAN :
                /\ handles' = CloseHandle(conns[k], e)
                /\ lastErr' = [lastErr EXCEPT ![p] = IF e THEN conns[k] ELSE @]
    /\ UNCHANGED <<rwReaders, rwWriter, pc, opKey, localDB, ret, ghostPool,
                   calls, teardown, overlap>>
    /\ UNCHANGED <<authVars, serverVars>>

\* the range is exhausted: return lastErr
CloseAllReturn(p) ==
    /\ pc[p] = "a_loop"
    /\ \A k \in Keys : conns[k] = NoDB
    /\ CloseReturn(p, "closeall", lastErr[p])
    /\ UNCHANGED <<conns, opKey, handles, ghostPool, calls, teardown, overlap>>
    /\ UNCHANGED <<authVars, serverVars>>

\* a step of caller p inside a call it has begun
StepInCall(p) ==
       \/ GetRLock(p)
       \/ GetFast(p)
       \/ GetLock(p)
       \/ GetLocked(p)
       \/ GetDoubleCheck(p)
       \/ NewDBOk(p)
       \/ NewDBErr(p)
       \/ GetStore(p)
       \/ CloseLock(p)
       \/ CloseLocked(p)
       \/ CloseBody(p)
       \/ CloseDelete(p)
       \/ CloseAllStep(p)
       \/ CloseAllReturn(p)

NextPool ==
    \E p \in Procs :
          \/ \E k \in Keys : GetCall(p, k)
          \/ \E k \in Keys : CloseCall(p, k)
          \/ CloseAllCall(p)
          \/ StepInCall(p)

(***************************************************************************)
(* Part II.  The authentication middleware.                                *)
(*                                                                         *)
(* Strings the middleware only passes along are kept as strings; a JSON    *)
(* value is a record [t, v] of its JSON type and its text.  A cookie value *)
(* on the wire is described by what each decode step finds in it.          *)
(***************************************************************************)

JStr(s) == [t |-> "string", v |-> s]
JNum(s) == [t |-> "number", v |-> s]
JObj(s) == [t |-> "object", v |-> s]
JAbsent == [t |-> "absent", v |-> ""]

Fields == {"access_token", "refresh_token", "expires_at", "user", "provider_token"}

\* the access tokens that occur: what a JWT library finds in each
AccessTokens == {"jwt.u1.ok", "jwt.u1.expired", "jwt.u2.ok", "jwt.nosub.ok", "not-a-jwt"}
NoToken == ""
NoSub == "<nil>"       \* claims["sub"] of a token without a subject claim
Unset == "<unset>"     \* no value bound under types.UserContextKey

TokenInfo(t) ==
    CASE t = "jwt.u1.ok"      -> [jwt |-> TRUE, kid |-> "k1", expired |-> FALSE, sub |-> "u1"]
      [] t = "jwt.u1.expired" -> [jwt |-> TRUE, kid |-> "k1", expired |-> TRUE, sub |-> "u1"]
      [] t = "jwt.u2.ok"      -> [jwt |-> TRUE, kid |-> "k2", expired |-> FALSE, sub |-> "u2"]
      [] t = "jwt.nosub.ok"   -> [jwt |-> TRUE, kid |-> "k1", expired |-> FALSE, sub |-> NoSub]
      [] OTHER                -> [jwt |-> FALSE, kid |-> "", expired |-> FALSE, sub |-> NoSub]

KeySets == {{}, {"k1"}, {"k1", "k2"}}

\* cfg *config.Config, validated non-empty at startup
cfg == [JWKSUrl |-> "https://idp/jwks", AuthTokenName |-> "auth-token",
        TokenRefreshUrl |-> "https://idp/refresh", TokenRefreshKey |-> "secret",
        CookieDomain |-> "example.com"]

\* excludedPatterns, each an anchored regular expression of one literal path
excludedPatterns == <<"^/favicon\\.ico$", "^/robots\\.txt$">>

\* regexp.MatchString for the anchored literal patterns above: ^lit$ matches
\* exactly the text lit
MatchString(pattern, p) ==
    CASE pattern = "^/favicon\\.ico$" -> p = "/favicon.ico"
      [] pattern = "^/robots\\.txt$"  -> p = "/robots.txt"
      [] OTHER -> FALSE

\* the loop over excludedPatterns: some pattern matches the path
Excluded(p) == \E i \in 1..Len(excludedPatterns) : MatchString(excludedPatterns[i], p)

Paths == {"/favicon.ico", "/robots.txt", "/api/db", "/favicon.ico.bak"}

EmptyBundle == [f \in Fields |-> JAbsent]

\* the bundles a client may send
Bundles ==
    { [f \in Fields |->
          CASE f = "access_token"   -> a
            [] f = "refresh_token"  -> r
            [] f = "expires_at"     -> JNum("1700")
            [] f = "user"           -> JObj("user-old")
            [] f = "provider_token" -> JStr("pt")] :
      a \in {JAbsent, JNum("7")} \cup {JStr(t) : t \in AccessTokens},
      r \in {JAbsent, JNum("7"), JStr(""), JStr("r1")} }

\* cookie values on the wire: with or without the "base64-" prefix, the rest
\* valid base64 or not, the bytes valid JSON or not
CookieValues ==
    { [prefix |-> pf, b64ok |-> TRUE, jsonok |-> TRUE, obj |-> b] :
          pf \in BOOLEAN, b \in Bundles }
    \cup { [prefix |-> pf, b64ok |-> TRUE, jsonok |-> FALSE, obj |-> EmptyBundle] :
          pf \in BOOLEAN }
    \cup { [prefix |-> pf, b64ok |-> FALSE, jsonok |-> FALSE, obj |-> EmptyBundle] :
          pf \in BOOLEAN }

NoCookieValue == [prefix |-> FALSE, b64ok |-> FALSE, jsonok |-> FALSE, obj |-> EmptyBundle]

Requests ==
    { [path |-> p, hasCookie |-> TRUE, cookie |-> c] : p \in Paths, c \in CookieValues }
    \cup { [path |-> p, hasCookie |-> FALSE, cookie |-> NoCookieValue] : p \in Paths }

NoResp == [AccessToken |-> NoToken, RefreshToken |-> "", ExpiresAt |-> "", User |-> ""]

\* the identity provider during one request: the key-set endpoint answers or
\* not, the refresh endpoint answers or not
Envs ==
    { [jwksOk |-> jo, keys |-> ks, refreshOk |-> ro, resp |-> rs] :
          jo \in BOOLEAN, ks \in KeySets, ro \in BOOLEAN,
          rs \in { [AccessToken |-> t, RefreshToken |-> "r2", ExpiresAt |-> "1800",
                    User |-> "user-new"] : t \in AccessTokens } }

IdleEnv == [jwksOk |-> TRUE, keys |-> {}, refreshOk |-> FALSE,
            resp |-> [AccessToken |-> "not-a-jwt", RefreshToken |-> "r2",
                      ExpiresAt |-> "1800", User |-> "user-new"]]

NoResult == [kind |-> "none", code |-> 0, msg |-> ""]

InitAuth ==
    /\ apc = "idle"
    /\ req = [path |-> "/api/db", hasCookie |-> FALSE, cookie |-> NoCookieValue]
    /\ env = IdleEnv
    /\ jwks = {}
    /\ decoded = NoCookieValue
    /\ tokenData = EmptyBundle
    /\ accessToken = NoToken
    /\ token = NoToken
    /\ refreshResp = NoResp
    /\ setCookie = <<>>
    /\ result = NoResult
    /\ ctxUser = Unset
    /\ trail = <<>>
    /\ jwksFetches = 0
    /\ cookieReads = 0
    /\ refreshCalls = 0
    /\ verifyCalls = 0
    /\ nextCalls = 0
    /\ bindings = {}


\* net/http status codes used by the error constructors
StatusBadRequest == 400
StatusUnauthorized == 401
StatusInternalServerError == 500

\* NewHTTPError(code, message)
NewHTTPError(code, message) == [kind |-> "error", code |-> code, msg |-> message]

\* an Unauthorized that answers 403 instead of 401
UnauthorizedAsForbidden(message) == NewHTTPError(403, message)

BadRequest(message) == NewHTTPError(StatusBadRequest, message)
Unauthorized(message) == NewHTTPError(StatusUnauthorized, message)
InternalServerError(message) == NewHTTPError(StatusInternalServerError, message)

\* FetchJWKS(url): the key set the endpoint serves, or an error
FetchJWKS(url) == [ok |-> env.jwksOk, keys |-> IF env.jwksOk THEN env.keys ELSE {}]

\* VerifyJWT(tokenString, keys): the token parses, its key id is in the key
\* set, the signature and the time-bound claims hold
VerifyJWT(t, keys) ==
    /\ TokenInfo(t).jwt
    /\ TokenInfo(t).kid \in keys
    /\ ~TokenInfo(t).expired

\* the claims of a parsed token are a jwt.MapClaims
IsMapClaims(t) == TokenInfo(t).jwt

\* claims["sub"]
SubjectOf(t) == TokenInfo(t).sub

\* RefreshAccessToken(refreshToken, url, key): the endpoint's response, or an error
RefreshAccessToken(refreshToken, url, key) ==
    [ok |-> env.refreshOk, resp |-> IF env.refreshOk THEN env.resp ELSE NoResp]

\* strings.TrimPrefix(cookieValue, "base64-")
TrimPrefix(c) == [c EXCEPT !.prefix = FALSE]

\* base64.StdEncoding.DecodeString: '-' is no base64 character, so a value that
\* still carries the prefix does not decode
DecodeString(c) == [ok |-> c.b64ok /\ ~c.prefix, bytes |-> c]

\* json.Unmarshal(decodedBytes, &tokenData)
Unmarshal(c) == [ok |-> c.jsonok, obj |-> IF c.jsonok THEN c.obj ELSE EmptyBundle]

\* an encoding that puts the JSON text after the prefix without base64
EncodeCookieValueRaw(data) == [prefix |-> TRUE, b64ok |-> FALSE, jsonok |-> TRUE, obj |-> data]

\* "base64-" + base64.StdEncoding.EncodeToString(json.Marshal(newTokenData))
EncodeCookieValue(data) == [prefix |-> TRUE, b64ok |-> TRUE, jsonok |-> TRUE, obj |-> data]

\* the http.Cookie UpdateAuthCookie builds
UpdateAuthCookie(newTokenData, authTokenName, cookieDomain) ==
    [Name |-> authTokenName, Value |-> EncodeCookieValue(newTokenData), Path |-> "/",
     Domain |-> cookieDomain, HttpOnly |-> TRUE, Secure |-> TRUE, SameSite |-> "Lax"]

\* return <an HTTPError> from the middleware
Fail(err, state) ==
    /\ result' = err
    /\ trail' = Append(trail, state)
    /\ apc' = "done"

\* a request arrives at the middleware
StartRequest(r, e) ==
    /\ apc = "idle"
    /\ apc' = "bypass"
    /\ req' = r
    /\ env' = e
    /\ jwks' = {}
    /\ decoded' = NoCookieValue
    /\ tokenData' = EmptyBundle
    /\ accessToken' = NoToken
    /\ token' = NoToken
    /\ refreshResp' = NoResp
    /\ setCookie' = <<>>
    /\ result' = NoResult
    /\ ctxUser' = Unset
    /\ trail' = <<"START">>
    /\ jwksFetches' = 0
    /\ cookieReads' = 0
    /\ refreshCalls' = 0
    /\ verifyCalls' = 0
    /\ nextCalls' = 0
    /\ UNCHANGED <<poolVars, serverVars, bindings>>

\* a bypass check that lets no path through
BypassNever ==
    /\ apc = "bypass"
    /\ apc' = "jwks"
    /\ UNCHANGED <<req, env, jwks, decoded, tokenData, accessToken, token,
                   refreshResp, setCookie, result, ctxUser, trail, jwksFetches,
                   cookieReads, refreshCalls, verifyCalls, nextCalls>>
    /\ UNCHANGED <<poolVars, serverVars, bindings>>

\* for _, pattern := range excludedPatterns { ... if matched { return next(w, r) } }
Bypass ==
    /\ apc = "bypass"
    /\ IF Excluded(req.path)
          THEN /\ nextCalls' = nextCalls + 1
               /\ result' = [kind |-> "next", code |-> 0, msg |-> ""]
               /\ trail' = Append(trail, "EXCLUDED")
               /\ apc' = "done"
          ELSE /\ apc' = "jwks"
               /\ UNCHANGED <<nextCalls, result, trail>>
    /\ UNCHANGED <<req, env, jwks, decoded, tokenData, accessToken, token,
                   refreshResp, setCookie, ctxUser, jwksFetches, cookieReads,
                   refreshCalls, verifyCalls>>
    /\ UNCHANGED <<poolVars, serverVars, bindings>>

\* a key-set fetch whose error is ignored
FetchKeysUnchecked ==
    /\ apc = "jwks"
    /\ jwksFetches' = jwksFetches + 1
    /\ jwks' = FetchJWKS(cfg.JWKSUrl).keys
    /\ apc' = "cookie"
    /\ UNCHANGED <<req, env, decoded, tokenData, accessToken, token, refreshResp,
                   setCookie, result, ctxUser, trail, cookieReads, refreshCalls,
                   verifyCalls, nextCalls>>
    /\ UNCHANGED <<poolVars, serverVars, bindings>>

\* a fetch that is made by the first request only: later requests verify
\* against the keys of the tokens verified so far
FetchKeysReusing ==
    /\ apc = "jwks"
    /\ IF bindings # {}
          THEN /\ jwks' = {TokenInfo(b.token).kid : b \in bindings}
               /\ apc' = "cookie"
               /\ UNCHANGED <<jwksFetches, result, trail>>
          ELSE /\ jwksFetches' = jwksFetches + 1
               /\ IF FetchJWKS(cfg.JWKSUrl).ok
                     THEN /\ jwks' = FetchJWKS(cfg.JWKSUrl).keys
                          /\ apc' = "cookie"
                          /\ UNCHANGED <<result, trail>>
                     ELSE /\ Fail(InternalServerError("Failed to fetch JWKS"), "JWKS_FAIL")
                          /\ UNCHANGED jwks
    /\ UNCHANGED <<req, env, decoded, tokenData, accessToken, token, refreshResp,
                   setCookie, ctxUser, cookieReads, refreshCalls, verifyCalls, nextCalls>>
    /\ UNCHANGED <<poolVars, serverVars, bindings>>

\* jwks, err := FetchJWKS(cfg.JWKSUrl); if err != nil { return 500 }
FetchKeys ==
    /\ apc = "jwks"
    /\ jwksFetches' = jwksFetches + 1
    /\ IF FetchJWKS(cfg.JWKSUrl).ok
          THEN /\ jwks' = FetchJWKS(cfg.JWKSUrl).keys
               /\ apc' = "cookie"
               /\ UNCHANGED <<result, trail>>
          ELSE /\ Fail(InternalServerError("Failed to fetch JWKS"), "JWKS_FAIL")
               /\ UNCHANGED jwks
    /\ UNCHANGED <<req, env, decoded, tokenData, accessToken, token, refreshResp,
                   setCookie, ctxUser, cookieReads, refreshCalls, verifyCalls, nextCalls>>
    /\ UNCHANGED <<poolVars, serverVars, bindings>>

\* authCookie, err := r.Cookie(cfg.AuthTokenName); if err != nil { return 401 };
\* cookieValue = strings.TrimPrefix(authCookie.Value, "base64-")
ReadCookie ==
    /\ apc = "cookie"
    /\ cookieReads' = cookieReads + 1
    /\ IF req.hasCookie
          THEN /\ decoded' = TrimPrefix(req.cookie)
               /\ apc' = "base64"
               /\ UNCHANGED <<result, trail>>
          ELSE /\ Fail(Unauthorized("Authentication required"), "NO_COOKIE")
               /\ UNCHANGED decoded
    /\ UNCHANGED <<req, env, jwks, tokenData, accessToken, token, refreshResp,
                   setCookie, ctxUser, jwksFetches, refreshCalls, verifyCalls, nextCalls>>
    /\ UNCHANGED <<poolVars, serverVars, bindings>>

\* decodedBytes, err := base64.StdEncoding.DecodeString(cookieValue)
DecodeBase64 ==
    /\ apc = "base64"
    /\ IF DecodeString(decoded).ok
          THEN /\ apc' = "json"
               /\ UNCHANGED <<result, trail>>
          ELSE Fail(BadRequest("Invalid token format"), "DECODE_FAIL")
    /\ UNCHANGED <<req, env, jwks, decoded, tokenData, accessToken, token,
                   refreshResp, setCookie, ctxUser, jwksFetches, cookieReads,
                   refreshCalls, verifyCalls, nextCalls>>
    /\ UNCHANGED <<poolVars, serverVars, bindings>>

\* err = json.Unmarshal(decodedBytes, &tokenData)
ParseJSON ==
    /\ apc = "json"
    /\ IF Unmarshal(decoded).ok
          THEN /\ tokenData' = Unmarshal(decoded).obj
               /\ apc' = "field"
               /\ UNCHANGED <<result, trail>>
          ELSE /\ Fail(BadRequest("Invalid token JSON"), "DECODE_FAIL")
               /\ UNCHANGED tokenData
    /\ UNCHANGED <<req, env, jwks, decoded, accessToken, token, refreshResp,
                   setCookie, ctxUser, jwksFetches, cookieReads, refreshCalls,
                   verifyCalls, nextCalls>>
    /\ UNCHANGED <<poolVars, serverVars, bindings>>

\* accessToken, ok := tokenData["access_token"].(string)
AccessTokenField ==
    /\ apc = "field"
    /\ IF tokenData["access_token"].t = "string"
          THEN /\ accessToken' = tokenData["access_token"].v
               /\ trail' = Append(trail, "DECODE_OK")
               /\ apc' = "verify"
               /\ UNCHANGED result
          ELSE /\ Fail(BadRequest("Invalid access token"), "DECODE_FAIL")
               /\ UNCHANGED accessToken
    /\ UNCHANGED <<req, env, jwks, decoded, tokenData, token, refreshResp,
                   setCookie, ctxUser, jwksFetches, cookieReads, refreshCalls,
                   verifyCalls, nextCalls>>
    /\ UNCHANGED <<poolVars, serverVars, bindings>>

\* token, err := VerifyJWT(accessToken, jwks)
Verify ==
    /\ apc = "verify"
    /\ verifyCalls' = verifyCalls + 1
    /\ IF VerifyJWT(accessToken, jwks)
          THEN /\ token' = accessToken
               /\ apc' = "claims"
               /\ UNCHANGED trail
          ELSE /\ trail' = Append(trail, "VERIFY_FAIL")
               /\ apc' = "refresh_check"
               /\ UNCHANGED token
    /\ UNCHANGED <<req, env, jwks, decoded, tokenData, accessToken, refreshResp,
                   setCookie, result, ctxUser, jwksFetches, cookieReads,
                   refreshCalls, nextCalls>>
    /\ UNCHANGED <<poolVars, serverVars, bindings>>

\* a refresh check that accepts any bundle, also one without a refresh token
RefreshCheckAlways ==
    /\ apc = "refresh_check"
    /\ trail' = Append(trail, "REFRESH_ATTEMPT")
    /\ apc' = "refresh"
    /\ UNCHANGED <<req, env, jwks, decoded, tokenData, accessToken, token,
                   refreshResp, setCookie, result, ctxUser, jwksFetches, cookieReads,
                   refreshCalls, verifyCalls, nextCalls>>
    /\ UNCHANGED <<poolVars, serverVars, bindings>>

\* if refreshToken, ok := tokenData["refresh_token"].(string); ok && refreshToken != ""
\* { ... } else { return 401 }
RefreshCheck ==
    /\ apc = "refresh_check"
    /\ IF tokenData["refresh_token"].t = "string" /\ tokenData["refresh_token"].v # ""
          THEN /\ trail' = Append(trail, "REFRESH_ATTEMPT")
               /\ apc' = "refresh"
               /\ UNCHANGED result
          ELSE Fail(Unauthorized("Invalid token and no refresh token available"), "FAIL")
    /\ UNCHANGED <<req, env, jwks, decoded, tokenData, accessToken, token,
                   refreshResp, setCookie, ctxUser, jwksFetches, cookieReads,
                   refreshCalls, verifyCalls, nextCalls>>
    /\ UNCHANGED <<poolVars, serverVars, bindings>>

\* refreshResp, refreshErr := RefreshAccessToken(refreshToken, cfg.TokenRefreshUrl,
\* cfg.TokenRefreshKey); if refreshErr != nil { return 401 }
Refresh ==
    /\ apc = "refresh"
    /\ refreshCalls' = refreshCalls + 1
    /\ LET r == RefreshAccessToken(tokenData["refresh_token"].v, cfg.TokenRefreshUrl,
                                   cfg.TokenRefreshKey)
       IN IF r.ok
             THEN /\ refreshResp' = r.resp
                  /\ apc' = "merge"
                  /\ UNCHANGED <<result, trail>>
             ELSE /\ Fail(Unauthorized("Token refresh failed"), "REFRESH_FAIL")
                  /\ UNCHANGED refreshResp
    /\ UNCHANGED <<req, env, jwks, decoded, tokenData, accessToken, token,
                   setCookie, ctxUser, jwksFetches, cookieReads, verifyCalls, nextCalls>>
    /\ UNCHANGED <<poolVars, serverVars, bindings>>

\* a merge that builds the new bundle from the refresh response alone
MergeFromResponseOnly ==
    /\ apc = "merge"
    /\ tokenData' = [EmptyBundle EXCEPT !["access_token"] = JStr(refreshResp.AccessToken),
                                        !["refresh_token"] = JStr(refreshResp.RefreshToken),
                                        !["expires_at"] = JNum(refreshResp.ExpiresAt),
                                        !["user"] = JObj(refreshResp.User)]
    /\ apc' = "set_cookie"
    /\ UNCHANGED <<req, env, jwks, decoded, accessToken, token, refreshResp,
                   setCookie, result, ctxUser, trail, jwksFetches, cookieReads,
                   refreshCalls, verifyCalls, nextCalls>>
    /\ UNCHANGED <<poolVars, serverVars, bindings>>

\* tokenData["access_token"] = refreshResp.AccessToken, and likewise
\* refresh_token, expires_at, user
Merge ==
    /\ apc = "merge"
    /\ tokenData' = [tokenData EXCEPT !["access_token"] = JStr(refreshResp.AccessToken),
                                      !["refresh_token"] = JStr(refreshResp.RefreshToken),
                                      !["expires_at"] = JNum(refreshResp.ExpiresAt),
                                      !["user"] = JObj(refreshResp.User)]
    /\ apc' = "set_cookie"
    /\ UNCHANGED <<req, env, jwks, decoded, accessToken, token, refreshResp,
                   setCookie, result, ctxUser, trail, jwksFetches, cookieReads,
                   refreshCalls, verifyCalls, nextCalls>>
    /\ UNCHANGED <<poolVars, serverVars, bindings>>

\* an update that forgets to write the Set-Cookie header
SetAuthCookieDropped ==
    /\ apc = "set_cookie"
    /\ apc' = "reverify"
    /\ UNCHANGED <<req, env, jwks, decoded, tokenData, accessToken, token,
                   refreshResp, setCookie, result, ctxUser, trail, jwksFetches,
                   cookieReads, refreshCalls, verifyCalls, nextCalls>>
    /\ UNCHANGED <<poolVars, serverVars, bindings>>

\* UpdateAuthCookie(w, tokenData, cfg.AuthTokenName, cfg.CookieDomain):
\* w.Header().Set("Set-Cookie", cookie.String())
SetAuthCookie ==
    /\ apc = "set_cookie"
    /\ setCookie' = <<UpdateAuthCookie(tokenData, cfg.AuthTokenName, cfg.CookieDomain)>>
    /\ apc' = "reverify"
    /\ UNCHANGED <<req, env, jwks, decoded, tokenData, accessToken, token,
                   refreshResp, result, ctxUser, trail, jwksFetches, cookieReads,
                   refreshCalls, verifyCalls, nextCalls>>
    /\ UNCHANGED <<poolVars, serverVars, bindings>>

\* a re-verification whose failure is not returned
ReverifyUnchecked ==
    /\ apc = "reverify"
    /\ verifyCalls' = verifyCalls + 1
    /\ token' = refreshResp.AccessToken
    /\ trail' = Append(trail, "REVERIFY")
    /\ apc' = "claims"
    /\ UNCHANGED <<req, env, jwks, decoded, tokenData, accessToken, refreshResp,
                   setCookie, result, ctxUser, jwksFetches, cookieReads,
                   refreshCalls, nextCalls>>
    /\ UNCHANGED <<poolVars, serverVars, bindings>>

\* a re-verification whose failure takes the refreshed cookie back off the
\* response
ReverifyDiscardingCookie ==
    /\ apc = "reverify"
    /\ verifyCalls' = verifyCalls + 1
    /\ IF VerifyJWT(refreshResp.AccessToken, jwks)
          THEN /\ token' = refreshResp.AccessToken
               /\ trail' = Append(trail, "REVERIFY")
               /\ apc' = "claims"
               /\ UNCHANGED <<result, setCookie>>
          ELSE /\ result' = Unauthorized("Invalid refreshed token")
               /\ trail' = trail \o <<"REVERIFY", "REVERIFY_FAIL">>
               /\ apc' = "done"
               /\ setCookie' = <<>>
               /\ UNCHANGED token
    /\ UNCHANGED <<req, env, jwks, decoded, tokenData, accessToken, refreshResp,
                   ctxUser, jwksFetches, cookieReads, refreshCalls, nextCalls>>
    /\ UNCHANGED <<poolVars, serverVars, bindings>>

\* token, err = VerifyJWT(refreshResp.AccessToken, jwks); if err != nil { return 401 }
Reverify ==
    /\ apc = "reverify"
    /\ verifyCalls' = verifyCalls + 1
    /\ IF VerifyJWT(refreshResp.AccessToken, jwks)
          THEN /\ token' = refreshResp.AccessToken
               /\ trail' = Append(trail, "REVERIFY")
               /\ apc' = "claims"
               /\ UNCHANGED result
          ELSE /\ result' = Unauthorized("Invalid refreshed token")
               /\ trail' = trail \o <<"REVERIFY", "REVERIFY_FAIL">>
               /\ apc' = "done"
               /\ UNCHANGED token
    /\ UNCHANGED <<req, env, jwks, decoded, tokenData, accessToken, refreshResp,
                   setCookie, ctxUser, jwksFetches, cookieReads, refreshCalls, nextCalls>>
    /\ UNCHANGED <<poolVars, serverVars, bindings>>

\* the record of one binding: the token verified, the identity bound, and
\* whether the token had been verified and bound before
Binding(t, sub) ==
    [token |-> t, sub |-> sub, again |-> \E b \in bindings : b.token = t]

\* the identity of a token the first time it is seen, none afterwards
FirstTimeSubject == IF \E b \in bindings : b.token = token THEN NoSub ELSE SubjectOf(token)

\* a stage that binds the identity only the first time it sees a token
BindAndNextFirstTimeOnly ==
    /\ apc = "claims"
    /\ IF IsMapClaims(token)
          THEN /\ ctxUser' = FirstTimeSubject
               /\ nextCalls' = nextCalls + 1
               /\ result' = [kind |-> "next", code |-> 0, msg |-> ""]
               /\ trail' = Append(trail, IF refreshCalls = 0 THEN "VERIFY_OK" ELSE "OK")
               /\ apc' = "done"
               /\ bindings' = bindings \cup {Binding(token, FirstTimeSubject)}
          ELSE /\ Fail(Unauthorized("Invalid token claims"), "CLAIMS_FAIL")
               /\ UNCHANGED <<ctxUser, nextCalls, bindings>>
    /\ UNCHANGED <<req, env, jwks, decoded, tokenData, accessToken, token,
                   refreshResp, setCookie, jwksFetches, cookieReads, refreshCalls,
                   verifyCalls>>
    /\ UNCHANGED <<poolVars, serverVars>>

\* claims, ok := token.Claims.(jwt.MapClaims); if !ok { return 401 };
\* ctx := context.WithValue(r.Context(), types.UserContextKey, claims["sub"]);
\* return next(w, r.WithContext(ctx))
BindAndNext ==
    /\ apc = "claims"
    /\ IF IsMapClaims(token)
          THEN /\ ctxUser' = SubjectOf(token)
               /\ nextCalls' = nextCalls + 1
               /\ result' = [kind |-> "next", code |-> 0, msg |-> ""]
               /\ trail' = Append(trail, IF refreshCalls = 0 THEN "VERIFY_OK" ELSE "OK")
               /\ apc' = "done"
               /\ bindings' = bindings \cup {Binding(token, SubjectOf(token))}
          ELSE /\ Fail(Unauthorized("Invalid token claims"), "CLAIMS_FAIL")
               /\ UNCHANGED <<ctxUser, nextCalls, bindings>>
    /\ UNCHANGED <<req, env, jwks, decoded, tokenData, accessToken, token,
                   refreshResp, setCookie, jwksFetches, cookieReads, refreshCalls,
                   verifyCalls>>
    /\ UNCHANGED <<poolVars, serverVars>>

\* the middleware has returned: the request and its context are discarded
EndRequest ==
    /\ apc = "done"
    /\ apc' = "idle"
    /\ req' = [path |-> "/api/db", hasCookie |-> FALSE, cookie |-> NoCookieValue]
    /\ env' = IdleEnv
    /\ jwks' = {}
    /\ decoded' = NoCookieValue
    /\ tokenData' = EmptyBundle
    /\ accessToken' = NoToken
    /\ token' = NoToken
    /\ refreshResp' = NoResp
    /\ setCookie' = <<>>
    /\ result' = NoResult
    /\ ctxUser' = Unset
    /\ trail' = <<>>
    /\ jwksFetches' = 0
    /\ cookieReads' = 0
    /\ refreshCalls' = 0
    /\ verifyCalls' = 0
    /\ nextCalls' = 0
    /\ UNCHANGED <<poolVars, serverVars, bindings>>

NextAuth ==
       \/ apc = "idle" /\ \E r \in Requests, e \in Envs : StartRequest(r, e)
       \/ Bypass
       \/ FetchKeys
       \/ ReadCookie
       \/ DecodeBase64
       \/ ParseJSON
       \/ AccessTokenField
       \/ Verify
       \/ RefreshCheck
       \/ Refresh
       \/ Merge
       \/ SetAuthCookie
       \/ Reverify
       \/ BindAndNext
       \/ EndRequest

(***************************************************************************)
(* Part III.  The server.                                                  *)
(*                                                                         *)
(* A URL path, a route pattern, a user id, a project id and a file path    *)
(* are sequences of tokens: "/" and ".." are tokens of their own, so that  *)
(* trimming, joining and path resolution work on them as they do on the    *)
(* characters of the strings.                                              *)
(***************************************************************************)

\* the text of a token sequence
RECURSIVE Text(_)
Text(p) == IF p = <<>> THEN "" ELSE Head(p) \o Text(Tail(p))

Root == <<"/">>
ApiDb == <<"/", "api", "/", "db">>
ApiHealth == <<"/", "api", "/", "health">>
ApiStats == <<"/", "api", "/", "stats">>
ApiTables == <<"/", "api", "/", "tables">>
Favicon == <<"/", "favicon.ico">>

ApiRoot == <<"/", "api", "/">>

Patterns == {Root, ApiRoot, ApiDb, ApiHealth, ApiStats, ApiTables}
NoPattern == <<>>

\* the stages a Middleware value can be
MiddlewareNames == {"LoggingMiddleware", "CORSMiddleware", "WorkingDirectoryMiddleware",
                    "auth.Middleware", "database.Middleware"}

\* what the registration calls made one at a time are given
RegisteredAlone == {[pattern |-> Root, handler |-> "homeHandler"],
                    [pattern |-> ApiStats, handler |-> "statsHandler"],
                    [pattern |-> ApiStats, handler |-> "HealthHandler"]}

\* the requests a client sends
RequestMethods == {"GET", "POST", "PUT", "OPTIONS"}
RequestPaths == {Root, ApiDb, ApiHealth, ApiStats, Favicon}

\* NewServer()
NewServer == [routes |-> [p \in Patterns |-> <<>>], middlewares |-> <<>>]

\* (s *Server) Use(middleware)
Use(s, middleware) == [s EXCEPT !.middlewares = Append(@, middleware)]

\* (s *Server) addRoute(method, pattern, handler)
addRoute(s, method, pat, handler) ==
    [s EXCEPT !.routes[pat] =
        Append(@, [Method |-> method, Pattern |-> pat, Handler |-> handler])]

Handle(s, pat, handler) == addRoute(s, "", pat, handler)
GET(s, pat, handler) == addRoute(s, "GET", pat, handler)
POST(s, pat, handler) == addRoute(s, "POST", pat, handler)

\* strings.TrimSuffix(s, "/") and strings.TrimPrefix(s, "/")
TrimSuffix(s, suffix) ==
    IF s # <<>> /\ s[Len(s)] = suffix THEN SubSeq(s, 1, Len(s) - 1) ELSE s
TrimLeading(s, prefix) ==
    IF s # <<>> /\ Head(s) = prefix THEN Tail(s) ELSE s

\* a join that puts a slash between the prefix and the pattern as they are
buildFullPatternUntrimmed(prefix, pat) == prefix \o <<"/">> \o pat

\* (rg *RouteGroup) buildFullPattern(pattern)
buildFullPattern(prefix, pat) ==
    LET pre == TrimSuffix(prefix, "/")
        rest == TrimLeading(pat, "/")
    IN  IF rest = <<>> THEN pre \o <<"/">> ELSE pre \o <<"/">> \o rest

\* (rg *RouteGroup) GET and POST, rg == s.Group(prefix)
GroupGET(s, prefix, pat, handler) == GET(s, buildFullPattern(prefix, pat), handler)
GroupPOST(s, prefix, pat, handler) == POST(s, buildFullPattern(prefix, pat), handler)

\* the loop of Start over the middlewares, from the last registered to the
\* first: handler = s.middlewares[i](handler).  A handler is the list of its
\* stages from the outermost in, each with its index in s.middlewares; the
\* dispatcher is below the last of them.
RECURSIVE ApplyMiddlewares(_, _, _)
ApplyMiddlewares(mws, handler, i) ==
    IF i = 0 THEN handler
    ELSE ApplyMiddlewares(mws, <<[mw |-> mws[i], reg |-> i]>> \o handler, i - 1)

\* the same loop running from the first registered to the last
RECURSIVE ApplyMiddlewaresForward(_, _, _)
ApplyMiddlewaresForward(mws, handler, i) ==
    IF i > Len(mws) THEN handler
    ELSE ApplyMiddlewaresForward(mws, <<[mw |-> mws[i], reg |-> i]>> \o handler, i + 1)

NotRegistered == [registered |-> FALSE, chain |-> <<>>, routes |-> <<>>]

\* a wrapping that applies the middlewares first to last
WrapForward(s, pat) ==
    [registered |-> TRUE,
     chain |-> ApplyMiddlewaresForward(s.middlewares, <<>>, 1),
     routes |-> s.routes[pat]]

\* the body of the loop of Start for one pattern: the dispatcher over the
\* pattern's routes, wrapped in the middlewares
Wrap(s, pat) ==
    [registered |-> TRUE,
     chain |-> ApplyMiddlewares(s.middlewares, <<>>, Len(s.middlewares)),
     routes |-> s.routes[pat]]

\* http.ServeMux: the pattern a path is served by, an exact match or else the
\* longest registered pattern ending in "/" that the path begins with
IsPrefix(a, b) == Len(a) <= Len(b) /\ SubSeq(b, 1, Len(a)) = a
MuxMatch(m, path) ==
    LET cands == {p \in Patterns :
                     /\ m[p].registered
                     /\ \/ p = path
                        \/ p[Len(p)] = "/" /\ IsPrefix(p, path)}
    IN  IF cands = {} THEN NoPattern
        ELSE CHOOSE p \in cands : \A q \in cands : Len(q) <= Len(p)

\* the loop of the dispatcher: the index of the first route whose method is
\* empty or the request's, 0 when the loop ends without one
RECURSIVE FirstRoute(_, _, _)
FirstRoute(rs, method, i) ==
    IF i > Len(rs) THEN 0
    ELSE IF rs[i].Method = "" \/ rs[i].Method = method THEN i
    ELSE FirstRoute(rs, method, i + 1)

\* a dispatcher that takes the last such route
LastRoute(rs, method) ==
    LET ms == {i \in 1..Len(rs) : rs[i].Method = "" \/ rs[i].Method = method}
    IN  IF ms = {} THEN 0 ELSE CHOOSE i \in ms : \A j \in ms : j <= i

\* a dispatcher that takes only routes registered with the request's method
ExactRoute(rs, method) ==
    LET ms == {i \in 1..Len(rs) : rs[i].Method = method}
    IN  IF ms = {} THEN 0 ELSE CHOOSE i \in ms : \A j \in ms : i <= j

SelectRoute(rs, method) == FirstRoute(rs, method, 1)

\* ---- errors and the response writer ----

StatusOK == 200
StatusNotFound == 404
StatusMethodNotAllowed == 405
StatusNotImplemented == 501

\* the nil error
Nil == [kind |-> "nil", code |-> 0, msg |-> ""]

\* an error that is not an HTTPError
PlainError(detail) == [kind |-> "plain", code |-> 0, msg |-> detail]

\* json.NewEncoder(w).Encode fails when the connection is gone
EncodeError == PlainError("write tcp: broken pipe")

NewWriter == [status |-> 0, body |-> <<>>, header |-> {}]

\* w.WriteHeader(code): the first call decides the status
WriteHeader(wr, code) == IF wr.status = 0 THEN [wr EXCEPT !.status = code] ELSE wr

\* w.Write(text): writes the header with 200 if none was written
Write(wr, text) == [WriteHeader(wr, StatusOK) EXCEPT !.body = Append(@, text)]

\* http.Error(w, msg, code): WriteHeader(code); fmt.Fprintln(w, msg)
Error(wr, msg, code) == Write(WriteHeader(wr, code), msg \o "\n")

\* a translator that echoes the detail of any error
handleErrorEcho(wr, err) ==
    IF err.kind = "error" THEN Error(wr, err.msg, err.code)
    ELSE Error(wr, err.msg, StatusInternalServerError)

\* (s *Server) handleError(w, err)
handleError(wr, err) ==
    IF err.kind = "error" THEN Error(wr, err.msg, err.code)
    ELSE Error(wr, "Internal Server Error", StatusInternalServerError)

\* ---- the tenant middleware's inputs ----

U1 == <<"u1">>
U2 == <<"u2">>
P1 == <<"p1">>
Traversal == <<"..", "/", "u2", "/", "p1">>    \* the text ../u2/p1

\* a value bound under a context key, or none
CtxString(s) == [bound |-> TRUE, isString |-> TRUE, s |-> s]
CtxNil == [bound |-> TRUE, isString |-> FALSE, s |-> <<>>]
CtxAbsent == [bound |-> FALSE, isString |-> FALSE, s |-> <<>>]

\* claims["sub"] of a verified token: a string, or nil when the claim is missing
Subjects == {CtxString(U1), CtxString(U2), CtxString(<<>>), CtxNil}

\* the *DB: its path
NoHandle == [path |-> <<>>]

NoContext == [user |-> CtxAbsent, workdir |-> <<>>, db |-> NoHandle]

\* a skip list that holds the select action as well
skipDBActionsWithSelect == {"create_project", "list_projects", "delete_project",
                            "get_project", "select"}

\* skipDBActions
skipDBActions == {"create_project", "list_projects", "delete_project", "get_project"}

\* request bodies: none (ContentLength 0), one whose read fails, one that is
\* not JSON, JSON requests with an action and a project_id, and a JSON request
\* sent without a declared length (chunked: ContentLength -1).  declared is
\* r.ContentLength > 0; drained is the reader having been read to its end.
NoBody == [present |-> FALSE, declared |-> FALSE, drained |-> FALSE, readable |-> TRUE,
           jsonok |-> FALSE, action |-> "", project |-> <<>>]
UnreadBody == [present |-> FALSE, declared |-> FALSE, drained |-> FALSE,
               readable |-> FALSE, jsonok |-> FALSE, action |-> "<unread>",
               project |-> <<>>]
JSONBody(action, project) ==
    [present |-> TRUE, declared |-> TRUE, drained |-> FALSE, readable |-> TRUE,
     jsonok |-> TRUE, action |-> action, project |-> project]
Bodies ==
    {NoBody,
     [JSONBody("", <<>>) EXCEPT !.readable = FALSE, !.jsonok = FALSE],
     [JSONBody("", <<>>) EXCEPT !.jsonok = FALSE],
     JSONBody("create_project", <<>>),
     [JSONBody("create_project", <<>>) EXCEPT !.declared = FALSE],
     [JSONBody("select", P1) EXCEPT !.declared = FALSE],
     JSONBody("get_tables", P1)}
    \cup {JSONBody("select", p) : p \in {<<>>, P1, Traversal}}

\* io.ReadAll(r.Body): the reader is left at its end
ReadAll(b) == [b EXCEPT !.drained = TRUE]

\* r.Body = io.NopCloser(strings.NewReader(string(bodyBytes))): a fresh reader
\* over the bytes read
ResetBody(b) == [b EXCEPT !.drained = FALSE]

\* the project parameter of the query string
UnreadQuery == <<"<unread>">>
Queries == {<<>>, P1}

NoRequest == [method |-> "", path |-> <<>>, query |-> UnreadQuery, body |-> UnreadBody]

\* the body and the query are fixed when a stage first reads them: no stage
\* before it looks at them
BodyOf(r) == IF r.body = UnreadBody THEN Bodies ELSE {r.body}
QueryOf(r) == IF r.query = UnreadQuery THEN Queries ELSE {r.query}

\* ---- file paths ----

\* the segments of a path between its "/" tokens
RECURSIVE Segments(_, _)
Segments(p, cur) ==
    IF p = <<>> THEN <<cur>>
    ELSE IF Head(p) = "/" THEN <<cur>> \o Segments(Tail(p), <<>>)
    ELSE Segments(Tail(p), Append(cur, Head(p)))

\* path resolution: empty and "." segments dropped, ".." removes the segment
\* before it
RECURSIVE Resolve(_, _)
Resolve(segs, out) ==
    IF segs = <<>> THEN out
    ELSE IF Head(segs) = <<>> \/ Head(segs) = <<".">> THEN Resolve(Tail(segs), out)
    ELSE IF Head(segs) = <<"..">>
         THEN Resolve(Tail(segs), IF out = <<>> THEN out ELSE SubSeq(out, 1, Len(out) - 1))
    ELSE Resolve(Tail(segs), Append(out, Head(segs)))

RECURSIVE JoinSegments(_)
JoinSegments(segs) ==
    IF segs = <<>> THEN <<>>
    ELSE IF Len(segs) = 1 THEN Head(segs)
    ELSE Head(segs) \o <<"/">> \o JoinSegments(Tail(segs))

\* filepath.Clean and filepath.Join
Clean(p) == JoinSegments(Resolve(Segments(p, <<>>), <<>>))
Join(a, b) == Clean(a \o <<"/">> \o b)

\* the file sql.Open("sqlite3", path) opens: the one the path resolves to
FileOf(path) == Clean(path)

\* WorkingDirectoryMiddleware("pdb_data")
basePath == <<"pdb_data">>

\* fmt.Sprintf("%s/%s", userID, projectID)
DBKey(userID, projectID) == userID \o <<"/">> \o projectID

\* fmt.Sprintf("%s/%s.db", basePath, key)
DBPath(base, key) == base \o <<"/">> \o key \o <<".db">>

\* a GetProjectDB that stores what NewDB returned before looking at the error
GetProjectDBStoringFailure(conns0, base, key, newDBOk) ==
    IF \E e \in conns0 : e.key = key
    THEN [db |-> (CHOOSE e \in conns0 : e.key = key).db, err |-> Nil,
          conns |-> conns0, opens |-> {}, newDBs |-> 0]
    ELSE IF newDBOk
    THEN [db |-> [path |-> DBPath(base, key)], err |-> Nil,
          conns |-> conns0 \cup {[key |-> key, db |-> [path |-> DBPath(base, key)]]},
          opens |-> {[path |-> DBPath(base, key)]}, newDBs |-> 1]
    ELSE [db |-> NoHandle, err |-> PlainError("failed to open database"),
          conns |-> conns0 \cup {[key |-> key, db |-> NoHandle]}, opens |-> {},
          newDBs |-> 1]

\* a GetProjectDB that calls NewDB a second time when the first call fails
GetProjectDBRetrying(conns0, base, key, newDBOk) ==
    IF \E e \in conns0 : e.key = key
    THEN [db |-> (CHOOSE e \in conns0 : e.key = key).db, err |-> Nil,
          conns |-> conns0, opens |-> {}, newDBs |-> 0]
    ELSE IF newDBOk
    THEN [db |-> [path |-> DBPath(base, key)], err |-> Nil,
          conns |-> conns0 \cup {[key |-> key, db |-> [path |-> DBPath(base, key)]]},
          opens |-> {[path |-> DBPath(base, key)]}, newDBs |-> 1]
    ELSE [db |-> NoHandle, err |-> PlainError("failed to open database"),
          conns |-> conns0, opens |-> {}, newDBs |-> 2]

\* GetProjectDB(basePath, key) run with no other caller: the handle stored
\* under the key, or else the handle NewDB opens, stored under the key, or
\* NewDB's error; newDBs is the number of NewDB calls made
GetProjectDB(conns0, base, key, newDBOk) ==
    IF \E e \in conns0 : e.key = key
    THEN [db |-> (CHOOSE e \in conns0 : e.key = key).db, err |-> Nil,
          conns |-> conns0, opens |-> {}, newDBs |-> 0]
    ELSE IF newDBOk
    THEN [db |-> [path |-> DBPath(base, key)], err |-> Nil,
          conns |-> conns0 \cup {[key |-> key, db |-> [path |-> DBPath(base, key)]]},
          opens |-> {[path |-> DBPath(base, key)]}, newDBs |-> 1]
    ELSE [db |-> NoHandle, err |-> PlainError("failed to open database"),
          conns |-> conns0, opens |-> {}, newDBs |-> 1]

\* ---- terminal handlers: the writer and the error each can return ----

\* json.NewEncoder(w).Encode(types.JSONResponse{...})
EncodeSuccess == "{\"success\":true}\n"
EncodeFailure(message) == "{\"success\":false,\"error\":\"" \o message \o "\"}\n"

\* sendSuccess(w, data)
sendSuccess(wr) ==
    {[w |-> Write(wr, EncodeSuccess), err |-> Nil], [w |-> wr, err |-> EncodeError]}

\* sendError(w, message, statusCode)
sendError(wr, message, statusCode) ==
    {[w |-> Write(WriteHeader(wr, statusCode), EncodeFailure(message)), err |-> Nil],
     [w |-> WriteHeader(wr, statusCode), err |-> EncodeError]}

homeHandler(wr) == {[w |-> Write(wr, "Welcome to PebbleDB Server!"), err |-> Nil]}

HealthHandler(wr) == sendSuccess(wr)

statsHandler(wr) ==
    sendError(wr, "Statistics endpoint not yet implemented", StatusNotImplemented)

tablesHandler(wr) ==
    sendError(wr, "Tables endpoint not yet implemented", StatusNotImplemented)

\* handleCreateProject, handleListProjects, handleDeleteProject,
\* handleGetProject, handleGetTables: success, or one of their failures
ProjectHandlers(wr) ==
    sendSuccess(wr)
    \cup {[w |-> wr, err |-> BadRequest("User context required")],
          [w |-> wr, err |-> InternalServerError("Working directory context required")]}

\* handleSelect and the other handlers of actions on a connection
ActionHandlers(wr, action) ==
    IF action = "select"
    THEN sendSuccess(wr)
         \cup {[w |-> wr, err |-> BadRequest("Table name is required")],
               [w |-> wr, err |-> InternalServerError("Failed to select records")]}
    ELSE {[w |-> wr, err |-> BadRequest("Unknown action: " \o action)]}

\* the actions of DatabaseHandler's first switch, handled without a connection
projectActions == {"create_project", "list_projects", "delete_project", "get_project",
                   "get_tables"}

\* DatabaseHandler(w, r), r carrying body b and context c
DatabaseHandler(wr, c, b) ==
    IF ~b.present \/ b.drained \/ ~b.readable \/ ~b.jsonok
    THEN {[w |-> wr, err |-> BadRequest("Invalid JSON request")]}
    ELSE IF b.action \in projectActions THEN ProjectHandlers(wr)
    ELSE IF c.db = NoHandle
    THEN {[w |-> wr, err |-> InternalServerError("Database connection not available")]}
    ELSE ActionHandlers(wr, b.action)

\* route.Handler(w, r)
Invoke(handler, wr, c, b) ==
    CASE handler = "homeHandler"     -> homeHandler(wr)
      [] handler = "HealthHandler"   -> HealthHandler(wr)
      [] handler = "statsHandler"    -> statsHandler(wr)
      [] handler = "tablesHandler"   -> tablesHandler(wr)
      [] handler = "DatabaseHandler" -> DatabaseHandler(wr, c, b)

\* ---- startup ----

ConfigFields == {"JWKSUrl", "AuthTokenName", "TokenRefreshUrl", "TokenRefreshKey",
                 "CookieDomain"}

\* no configuration loaded yet
NoConfig == [f \in ConfigFields |-> ""]

\* LoadConfig(): os.Getenv of each setting, "" when the variable is not set
LoadConfig == {[f \in ConfigFields |-> IF f \in unset THEN "" ELSE cfg[f]] :
                  unset \in SUBSET ConfigFields}

\* a validation that does not look at the cookie domain
ValidateWithoutCookieDomain(c) ==
    IF c.JWKSUrl = "" THEN PlainError("JWKS_URL environment variable is required")
    ELSE IF c.AuthTokenName = ""
    THEN PlainError("AUTH_TOKEN_NAME environment variable is required")
    ELSE IF c.TokenRefreshUrl = ""
    THEN PlainError("TOKEN_REFRESH_URL environment variable is required")
    ELSE IF c.TokenRefreshKey = ""
    THEN PlainError("TOKEN_REFRESH_KEY environment variable is required")
    ELSE Nil

\* (c *Config) Validate()
Validate(c) ==
    IF c.JWKSUrl = "" THEN PlainError("JWKS_URL environment variable is required")
    ELSE IF c.AuthTokenName = ""
    THEN PlainError("AUTH_TOKEN_NAME environment variable is required")
    ELSE IF c.TokenRefreshUrl = ""
    THEN PlainError("TOKEN_REFRESH_URL environment variable is required")
    ELSE IF c.TokenRefreshKey = ""
    THEN PlainError("TOKEN_REFRESH_KEY environment variable is required")
    ELSE IF c.CookieDomain = ""
    THEN PlainError("COOKIE_DOMAIN environment variable is required")
    ELSE Nil

\* ---- the server's state and steps ----

Ev(e, who, n) == [ev |-> e, who |-> who, n |-> n]

\* registration calls made on the server so far
RECURSIVE CountRoutes(_, _)
CountRoutes(s, ps) ==
    IF ps = {} THEN 0
    ELSE LET p == CHOOSE q \in ps : TRUE
         IN  Len(s.routes[p]) + CountRoutes(s, ps \ {p})
Registrations(s) == Len(s.middlewares) + CountRoutes(s, Patterns)

\* the registry as it was when the request in progress arrived
NoSnapshot == [projectDBs |-> {}, opened |-> {}]

InitServer ==
    /\ srv = NewServer
    /\ started = FALSE
    /\ mux = [p \in Patterns |-> NotRegistered]
    /\ spc = "idle"
    /\ sreq = NoRequest
    /\ muxPattern = NoPattern
    /\ depth = 0
    /\ dir = "in"
    /\ retErr = Nil
    /\ route = 0
    /\ w = NewWriter
    /\ ctx = NoContext
    /\ events = <<>>
    /\ translations = <<>>
    /\ projectDBs = {}
    /\ opened = {}
    /\ resolved = {}
    /\ boot = "start"
    /\ config = NoConfig
    /\ atStart = NoSnapshot

Init == InitPool /\ InitAuth /\ InitServer

requestVars == <<spc, sreq, muxPattern, depth, dir, retErr, route, w, ctx, events,
                 translations>>
tenantVars == <<projectDBs, opened, resolved>>

bootVars == <<boot, config>>

\* main: cfg := config.LoadConfig(); if err := cfg.Validate(); err != nil
\* { log.Fatal(...) }: the process exits, or goes on to create the server
LoadAndValidate ==
    /\ boot = "start"
    /\ \E c \in LoadConfig :
          /\ config' = c
          /\ boot' = IF Validate(c) # Nil THEN "fatal" ELSE "validated"
    /\ UNCHANGED <<srv, started, mux, requestVars, tenantVars, atStart>>
    /\ UNCHANGED <<poolVars, authVars>>

\* the prefixes and patterns a group is used with, one at a time
GroupPrefixes == {<<"/", "api">>, <<"/", "api", "/">>}
GroupPatterns == {<<>>, <<"/">>, <<"stats">>, <<"/", "stats">>}

\* rg := srv.Group(prefix); rg.GET(pattern, handler), called on its own
CallGroupRoute ==
    /\ boot = "validated" /\ ~started /\ Registrations(srv) < MaxRegistrations
    /\ \E prefix \in GroupPrefixes, pat \in GroupPatterns :
          srv' = GroupGET(srv, prefix, pat, "HealthHandler")
    /\ UNCHANGED <<started, mux, requestVars, tenantVars>>
    /\ UNCHANGED <<poolVars, authVars, bootVars, atStart>>

\* srv.Use(middleware), called on its own
CallUse ==
    /\ boot = "validated" /\ ~started /\ Registrations(srv) < MaxRegistrations
    /\ \E m \in MiddlewareNames : srv' = Use(srv, m)
    /\ UNCHANGED <<started, mux, requestVars, tenantVars>>
    /\ UNCHANGED <<poolVars, authVars, bootVars, atStart>>

\* srv.Handle, srv.GET or srv.POST, called on its own
CallAddRoute ==
    /\ boot = "validated" /\ ~started /\ Registrations(srv) < MaxRegistrations
    /\ \E r \in RegisteredAlone :
          srv' \in {Handle(srv, r.pattern, r.handler), GET(srv, r.pattern, r.handler),
                    POST(srv, r.pattern, r.handler)}
    /\ UNCHANGED <<started, mux, requestVars, tenantVars>>
    /\ UNCHANGED <<poolVars, authVars, bootVars, atStart>>

\* a SetupRoutes that registers the tenant middleware before the auth one
SetupRoutesTenantFirst(s) ==
    LET s1 == Use(s, "LoggingMiddleware")
        s2 == Use(s1, "CORSMiddleware")
        s3 == Use(s2, "WorkingDirectoryMiddleware")
        s4 == Use(s3, "database.Middleware")
        s5 == Use(s4, "auth.Middleware")
        s6 == GET(s5, Root, "homeHandler")
        s7 == GroupPOST(s6, <<"/", "api">>, <<"/", "db">>, "DatabaseHandler")
        s8 == GroupGET(s7, <<"/", "api">>, <<"/", "health">>, "HealthHandler")
        s9 == GroupGET(s8, <<"/", "api">>, <<"/", "stats">>, "statsHandler")
    IN  GroupGET(s9, <<"/", "api">>, <<"/", "tables">>, "tablesHandler")

\* handlers.SetupRoutes(srv, cfg)
SetupRoutes(s) ==
    LET s1 == Use(s, "LoggingMiddleware")
        s2 == Use(s1, "CORSMiddleware")
        s3 == Use(s2, "WorkingDirectoryMiddleware")
        s4 == Use(s3, "auth.Middleware")
        s5 == Use(s4, "database.Middleware")
        s6 == GET(s5, Root, "homeHandler")
        s7 == GroupPOST(s6, <<"/", "api">>, <<"/", "db">>, "DatabaseHandler")
        s8 == GroupGET(s7, <<"/", "api">>, <<"/", "health">>, "HealthHandler")
        s9 == GroupGET(s8, <<"/", "api">>, <<"/", "stats">>, "statsHandler")
    IN  GroupGET(s9, <<"/", "api">>, <<"/", "tables">>, "tablesHandler")

\* main: srv := server.NewServer(); handlers.SetupRoutes(srv, cfg)
CallSetupRoutes ==
    /\ boot = "validated" /\ ~started /\ srv = NewServer
    /\ srv' = SetupRoutes(srv)
    /\ UNCHANGED <<started, mux, requestVars, tenantVars>>
    /\ UNCHANGED <<poolVars, authVars, bootVars, atStart>>

\* (s *Server) Start(port): every pattern with routes is registered with the
\* mux, then the server listens
Start ==
    /\ boot = "validated" /\ ~started
    /\ started' = TRUE
    /\ mux' = [p \in Patterns |->
                 IF srv.routes[p] # <<>> THEN Wrap(srv, p) ELSE NotRegistered]
    /\ UNCHANGED <<srv, requestVars, tenantVars>>
    /\ UNCHANGED <<poolVars, authVars, bootVars, atStart>>

\* a server that looks for a route of the request's method before the
\* middlewares run, and answers 405 at once when there is none
ServeHTTPCheckingMethodFirst(method, path) ==
    /\ started /\ spc = "idle"
    /\ sreq' = [NoRequest EXCEPT !.method = method, !.path = path]
    /\ muxPattern' = MuxMatch(mux, path)
    /\ IF MuxMatch(mux, path) = NoPattern
          THEN /\ w' = Error(NewWriter, "404 page not found", StatusNotFound)
               /\ events' = <<Ev("write", "mux", StatusNotFound)>>
               /\ spc' = "done"
               /\ depth' = 0
          ELSE IF SelectRoute(mux[MuxMatch(mux, path)].routes, method) = 0
          THEN /\ w' = Error(NewWriter, "Method not allowed", StatusMethodNotAllowed)
               /\ events' = <<Ev("dispatch", "dispatcher", 0),
                              Ev("write", "dispatcher", StatusMethodNotAllowed)>>
               /\ spc' = "done"
               /\ depth' = 0
          ELSE /\ w' = NewWriter
               /\ events' = <<>>
               /\ spc' = "serving"
               /\ depth' = 1
    /\ dir' = "in"
    /\ atStart' = [projectDBs |-> projectDBs, opened |-> opened]
    /\ UNCHANGED <<srv, started, mux, retErr, route, ctx, translations, tenantVars>>
    /\ UNCHANGED <<poolVars, authVars, bootVars>>

\* the mux receives a request: the handler registered for the path's pattern
\* is called, or the mux answers 404
ServeHTTP(method, path) ==
    /\ started /\ spc = "idle"
    /\ sreq' = [NoRequest EXCEPT !.method = method, !.path = path]
    /\ muxPattern' = MuxMatch(mux, path)
    /\ IF MuxMatch(mux, path) = NoPattern
          THEN /\ w' = Error(NewWriter, "404 page not found", StatusNotFound)
               /\ events' = <<Ev("write", "mux", StatusNotFound)>>
               /\ spc' = "done"
               /\ depth' = 0
          ELSE /\ w' = NewWriter
               /\ events' = <<>>
               /\ spc' = "serving"
               /\ depth' = 1
    /\ dir' = "in"
    /\ atStart' = [projectDBs |-> projectDBs, opened |-> opened]
    /\ UNCHANGED <<srv, started, mux, retErr, route, ctx, translations, tenantVars>>
    /\ UNCHANGED <<poolVars, authVars, bootVars>>

chain == mux[muxPattern].chain

AtStage(m) ==
    /\ spc = "serving" /\ dir = "in"
    /\ depth <= Len(chain)
    /\ chain[depth].mw = m

\* the stage calls next(w, r)
CallNext(m) ==
    /\ events' = Append(events, Ev("in", m, chain[depth].reg))
    /\ depth' = depth + 1
    /\ UNCHANGED <<dir, retErr>>

\* the stage returns err without calling next
ReturnEarly(m, err) ==
    /\ events' = events \o <<Ev("in", m, chain[depth].reg), Ev("out", m, chain[depth].reg)>>
    /\ depth' = depth - 1
    /\ dir' = "out"
    /\ retErr' = err

\* LoggingMiddleware: log.Printf; return next(w, r)
LoggingMiddleware ==
    /\ AtStage("LoggingMiddleware")
    /\ CallNext("LoggingMiddleware")
    /\ UNCHANGED <<srv, started, mux, spc, sreq, muxPattern, route, w, ctx, translations,
                   tenantVars>>
    /\ UNCHANGED <<poolVars, authVars, bootVars, atStart>>

CORSHeaders == {"Access-Control-Allow-Origin", "Access-Control-Allow-Methods",
                "Access-Control-Allow-Headers"}

\* a CORS stage that sets the headers and passes every method on
CORSMiddlewarePassingPreflight ==
    /\ AtStage("CORSMiddleware")
    /\ w' = [w EXCEPT !.header = @ \cup CORSHeaders]
    /\ CallNext("CORSMiddleware")
    /\ UNCHANGED <<srv, started, mux, spc, sreq, muxPattern, route, ctx, translations,
                   tenantVars>>
    /\ UNCHANGED <<poolVars, authVars, bootVars, atStart>>

\* CORSMiddleware: the three headers; OPTIONS is answered 200 here
CORSMiddleware ==
    /\ AtStage("CORSMiddleware")
    /\ IF sreq.method = "OPTIONS"
          THEN /\ w' = WriteHeader([w EXCEPT !.header = @ \cup CORSHeaders], StatusOK)
               /\ events' = events \o
                     <<Ev("in", "CORSMiddleware", chain[depth].reg),
                       Ev("write", "CORSMiddleware", StatusOK),
                       Ev("out", "CORSMiddleware", chain[depth].reg)>>
               /\ depth' = depth - 1
               /\ dir' = "out"
               /\ retErr' = Nil
          ELSE /\ w' = [w EXCEPT !.header = @ \cup CORSHeaders]
               /\ CallNext("CORSMiddleware")
    /\ UNCHANGED <<srv, started, mux, spc, sreq, muxPattern, route, ctx, translations,
                   tenantVars>>
    /\ UNCHANGED <<poolVars, authVars, bootVars, atStart>>

\* WorkingDirectoryMiddleware(basePath): binds the base path, calls next
WorkingDirectoryMiddleware ==
    /\ AtStage("WorkingDirectoryMiddleware")
    /\ ctx' = [ctx EXCEPT !.workdir = basePath]
    /\ CallNext("WorkingDirectoryMiddleware")
    /\ UNCHANGED <<srv, started, mux, spc, sreq, muxPattern, route, w, translations,
                   tenantVars>>
    /\ UNCHANGED <<poolVars, authVars, bootVars, atStart>>

\* the failures the auth middleware of Part II returns
AuthFailures == {InternalServerError("Failed to fetch JWKS"),
                 Unauthorized("Authentication required"),
                 BadRequest("Invalid token format")}

\* an auth stage that binds the identity u1 to a request on an excluded path
AuthMiddlewareBindingOnBypass ==
    /\ AtStage("auth.Middleware")
    /\ IF Excluded(Text(sreq.path))
          THEN /\ CallNext("auth.Middleware")
               /\ ctx' = [ctx EXCEPT !.user = CtxString(U1)]
          ELSE \/ \E err \in AuthFailures :
                     /\ ReturnEarly("auth.Middleware", err)
                     /\ UNCHANGED ctx
               \/ \E sub \in Subjects :
                     /\ ctx' = [ctx EXCEPT !.user = sub]
                     /\ CallNext("auth.Middleware")
    /\ UNCHANGED <<srv, started, mux, spc, sreq, muxPattern, route, w, translations,
                   tenantVars>>
    /\ UNCHANGED <<poolVars, authVars, bootVars, atStart>>

\* auth.Middleware(cfg), by its outcome: an excluded path is passed on as it
\* is; any other request fails, or is passed on with claims["sub"] bound
AuthMiddleware ==
    /\ AtStage("auth.Middleware")
    /\ IF Excluded(Text(sreq.path))
          THEN /\ CallNext("auth.Middleware")
               /\ UNCHANGED ctx
          ELSE \/ \E err \in AuthFailures :
                     /\ ReturnEarly("auth.Middleware", err)
                     /\ UNCHANGED ctx
               \/ \E sub \in Subjects :
                     /\ ctx' = [ctx EXCEPT !.user = sub]
                     /\ CallNext("auth.Middleware")
    /\ UNCHANGED <<srv, started, mux, spc, sreq, muxPattern, route, w, translations,
                   tenantVars>>
    /\ UNCHANGED <<poolVars, authVars, bootVars, atStart>>

\* the types.JSONRequest the tenant middleware parses: the body is read only
\* for a POST with a body, and a body that is not JSON leaves it empty
ParsedRequest(method, b) ==
    IF method = "POST" /\ b.declared /\ b.jsonok
    THEN [Action |-> b.action, ProjectID |-> b.project]
    ELSE [Action |-> "", ProjectID |-> <<>>]

\* an identity check that only looks for a bound value
MissingUserUnlessBound(c) == ~c.user.bound

\* userID, ok := r.Context().Value(types.UserContextKey).(string);
\* !ok || userID == ""
MissingUser(c) == ~(c.user.bound /\ c.user.isString) \/ c.user.s = <<>>

\* database.Middleware()
DatabaseMiddleware ==
    /\ AtStage("database.Middleware")
    /\ \E b \in (IF sreq.method = "POST" THEN BodyOf(sreq) ELSE {sreq.body}) :
       LET jreq == ParsedRequest(sreq.method, b)
           reads == sreq.method = "POST" /\ b.declared
           unreadable == reads /\ ~b.readable
           skip == jreq.Action \in skipDBActions
           readsQuery == ~unreadable /\ ~skip /\ ~MissingUser(ctx) /\ jreq.ProjectID = <<>>
       IN  \E q \in (IF readsQuery THEN QueryOf(sreq) ELSE {sreq.query}), newDBOk \in BOOLEAN :
           LET userID == ctx.user.s
               projectID == IF jreq.ProjectID = <<>> THEN q ELSE jreq.ProjectID
               dbKey == DBKey(userID, projectID)
               projectsBasePath == Join(ctx.workdir, <<"projects">>)
               found == GetProjectDB(projectDBs, projectsBasePath, dbKey, newDBOk)
               me == "database.Middleware"
               here == chain[depth].reg
           IN  /\ sreq' = [sreq EXCEPT !.query = q,
                                       !.body = IF reads /\ b.readable
                                                THEN ResetBody(ReadAll(b)) ELSE b]
               /\ IF unreadable
                     THEN /\ ReturnEarly(me, BadRequest("Failed to read request body"))
                          /\ UNCHANGED <<ctx, tenantVars>>
                  ELSE IF skip
                     THEN /\ CallNext(me)
                          /\ UNCHANGED <<ctx, tenantVars>>
                  ELSE IF MissingUser(ctx)
                     THEN /\ ReturnEarly(me, BadRequest("Missing user context"))
                          /\ UNCHANGED <<ctx, tenantVars>>
                  ELSE IF projectID = <<>>
                     THEN /\ ReturnEarly(me, BadRequest("Missing project ID"))
                          /\ UNCHANGED <<ctx, tenantVars>>
                  ELSE IF ctx.workdir = <<>>
                     THEN /\ ReturnEarly(me,
                                InternalServerError("Missing working directory context"))
                          /\ UNCHANGED <<ctx, tenantVars>>
                  ELSE IF found.err # Nil
                     THEN /\ events' = events \o
                                <<Ev("in", me, here), Ev("call", "GetProjectDB", 0)>> \o
                                [i \in 1..found.newDBs |-> Ev("call", "NewDB", 0)] \o
                                <<Ev("out", me, here)>>
                          /\ depth' = depth - 1
                          /\ dir' = "out"
                          /\ retErr' = InternalServerError(
                                           "Failed to load database: " \o found.err.msg)
                          /\ projectDBs' = found.conns
                          /\ opened' = opened \cup found.opens
                          /\ UNCHANGED <<ctx, resolved>>
                  ELSE /\ events' = events \o
                                <<Ev("in", me, here), Ev("call", "GetProjectDB", 0)>> \o
                                [i \in 1..found.newDBs |-> Ev("call", "NewDB", 0)]
                       /\ depth' = depth + 1
                       /\ UNCHANGED <<dir, retErr>>
                       /\ ctx' = [ctx EXCEPT !.db = found.db]
                       /\ projectDBs' = found.conns
                       /\ opened' = opened \cup found.opens
                       /\ resolved' = resolved \cup
                              {[user |-> userID, project |-> projectID, key |-> dbKey,
                                db |-> found.db, file |-> FileOf(found.db.path)]}
    /\ UNCHANGED <<srv, started, mux, spc, muxPattern, route, w, translations>>
    /\ UNCHANGED <<poolVars, authVars, bootVars, atStart>>

\* the dispatcher Start registered below the middlewares: the first route
\* whose method matches is selected, or 405 is written
Dispatch ==
    /\ spc = "serving" /\ dir = "in" /\ depth = Len(chain) + 1
    /\ LET k == SelectRoute(mux[muxPattern].routes, sreq.method)
       IN  IF k = 0
              THEN /\ w' = Error(w, "Method not allowed", StatusMethodNotAllowed)
                   /\ events' = events \o
                         <<Ev("dispatch", "dispatcher", 0),
                           Ev("write", "dispatcher", StatusMethodNotAllowed)>>
                   /\ route' = 0
                   /\ depth' = depth - 1
                   /\ dir' = "out"
                   /\ retErr' = Nil
              ELSE /\ route' = k
                   /\ events' = Append(events, Ev("dispatch", "dispatcher", k))
                   /\ dir' = "handler"
                   /\ UNCHANGED <<w, depth, retErr>>
    /\ UNCHANGED <<srv, started, mux, spc, sreq, muxPattern, ctx, translations, tenantVars>>
    /\ UNCHANGED <<poolVars, authVars, bootVars, atStart>>

\* route.Handler(w, r): the selected route's handler runs
InvokeHandler ==
    /\ spc = "serving" /\ dir = "handler"
    /\ LET rt == mux[muxPattern].routes[route]
       IN  \E b \in (IF rt.Handler = "DatabaseHandler" THEN BodyOf(sreq) ELSE {sreq.body}) :
           \E res \in Invoke(rt.Handler, w, ctx, b) :
              /\ sreq' = [sreq EXCEPT !.body = b]
              /\ w' = res.w
              /\ retErr' = res.err
              /\ events' = events \o <<Ev("handler", rt.Handler, route)>> \o
                    (IF res.w # w THEN <<Ev("write", rt.Handler, res.w.status)>> ELSE <<>>)
    /\ dir' = "handled"
    /\ UNCHANGED <<srv, started, mux, spc, muxPattern, depth, route, ctx, translations,
                   tenantVars>>
    /\ UNCHANGED <<poolVars, authVars, bootVars, atStart>>

\* a dispatcher wrapper that translates the handler's failure and returns it
\* to the chain as well
DispatcherReturnPassingError ==
    /\ spc = "serving" /\ dir = "handled"
    /\ IF retErr # Nil
          THEN /\ w' = handleError(w, retErr)
               /\ translations' = Append(translations,
                      [at |-> "dispatcher", err |-> retErr, before |-> w,
                       after |-> handleError(w, retErr)])
               /\ events' = Append(events, Ev("write", "handleError", handleError(w, retErr).status))
          ELSE UNCHANGED <<w, translations, events>>
    /\ UNCHANGED retErr
    /\ depth' = depth - 1
    /\ dir' = "out"
    /\ UNCHANGED <<srv, started, mux, spc, sreq, muxPattern, route, ctx, tenantVars>>
    /\ UNCHANGED <<poolVars, authVars, bootVars, atStart>>

\* the handler has returned to the dispatcher: a failure is translated there,
\* and the function Start wrapped the dispatcher in returns nil
DispatcherReturn ==
    /\ spc = "serving" /\ dir = "handled"
    /\ IF retErr # Nil
          THEN /\ w' = handleError(w, retErr)
               /\ translations' = Append(translations,
                      [at |-> "dispatcher", err |-> retErr, before |-> w,
                       after |-> handleError(w, retErr)])
               /\ events' = Append(events, Ev("write", "handleError", handleError(w, retErr).status))
          ELSE UNCHANGED <<w, translations, events>>
    /\ retErr' = Nil
    /\ depth' = depth - 1
    /\ dir' = "out"
    /\ UNCHANGED <<srv, started, mux, spc, sreq, muxPattern, route, ctx, tenantVars>>
    /\ UNCHANGED <<poolVars, authVars, bootVars, atStart>>

\* next has returned to a middleware, which returns what next returned
StageReturn ==
    /\ spc = "serving" /\ dir = "out" /\ depth >= 1
    /\ events' = Append(events, Ev("out", chain[depth].mw, chain[depth].reg))
    /\ depth' = depth - 1
    /\ UNCHANGED <<srv, started, mux, spc, sreq, muxPattern, dir, retErr, route, w, ctx,
                   translations, tenantVars>>
    /\ UNCHANGED <<poolVars, authVars, bootVars, atStart>>

\* the function Start registered with the mux: an error the chain returned
\* is translated; then the server completes the response, with 200 when no
\* status was written
FinalHandler ==
    /\ spc = "serving" /\ dir = "out" /\ depth = 0
    /\ IF retErr # Nil
          THEN /\ w' = handleError(w, retErr)
               /\ translations' = Append(translations,
                      [at |-> "finalHandler", err |-> retErr, before |-> w,
                       after |-> handleError(w, retErr)])
               /\ events' = Append(events, Ev("write", "handleError", handleError(w, retErr).status))
          ELSE /\ w' = WriteHeader(w, StatusOK)
               /\ UNCHANGED <<translations, events>>
    /\ spc' = "done"
    /\ UNCHANGED <<srv, started, mux, sreq, muxPattern, depth, dir, retErr, route, ctx,
                   tenantVars>>
    /\ UNCHANGED <<poolVars, authVars, bootVars, atStart>>

\* the response has been sent: the request and its context are discarded
Finish ==
    /\ spc = "done"
    /\ spc' = "idle"
    /\ sreq' = NoRequest
    /\ muxPattern' = NoPattern
    /\ depth' = 0
    /\ dir' = "in"
    /\ retErr' = Nil
    /\ route' = 0
    /\ w' = NewWriter
    /\ ctx' = NoContext
    /\ events' = <<>>
    /\ translations' = <<>>
    /\ atStart' = NoSnapshot
    /\ UNCHANGED <<srv, started, mux, tenantVars>>
    /\ UNCHANGED <<poolVars, authVars, bootVars>>

NextServer ==
       \/ LoadAndValidate
       \/ CallUse
       \/ CallAddRoute
       \/ CallGroupRoute
       \/ CallSetupRoutes
       \/ Start
       \/ started /\ spc = "idle" /\ \E m \in RequestMethods, p \in RequestPaths : ServeHTTP(m, p)
       \/ LoggingMiddleware
       \/ CORSMiddleware
       \/ WorkingDirectoryMiddleware
       \/ AuthMiddleware
       \/ DatabaseMiddleware
       \/ Dispatch
       \/ InvokeHandler
       \/ DispatcherReturn
       \/ StageReturn
       \/ FinalHandler
       \/ Finish

Next == NextPool \/ NextAuth \/ NextServer

\* the registry under its concurrent callers
SpecPool == Init /\ [][NextPool]_vars

\* the registry under fair scheduling: a goroutine that can take a step of its
\* call (the lock it waits for is free, or NewDB or Close is running, which
\* terminate) eventually takes one; no caller has to begin a call
SpecPoolFair ==
    /\ Init
    /\ [][NextPool /\ calls' <= MaxFairCalls]_vars
    /\ \A p \in Procs : WF_vars(StepInCall(p))

\* the auth middleware serving requests
SpecAuth == Init /\ [][NextAuth]_vars

\* the server: registrations, Start, then requests through the chain
SpecServer == Init /\ [][NextServer]_vars

Spec == Init /\ [][Next]_vars

(***************************************************************************)
(* Properties of the registry (checked under SpecPool).                    *)
(***************************************************************************)

\* the handles NewDB has constructed for key k
Built(k) == {h \in HandleIds : handles[h].key = k}

\* the handles for key k that are constructed and not yet closed
OpenHandles(k) == {h \in Built(k) : handles[h].open}

\* every caller is back from its call
Quiescent == \A p \in Procs : pc[p] = "idle"

\* some GetProjectDB call for key k has returned
GetReturned(k) == got[k] # {} \/ getErrs[k] > 0

\* C1 as stated: N >= 1 concurrent GetProjectDB calls for one unregistered key
\* construct exactly one handle and every caller receives that handle.
C1_ExactlyOneHandleEveryCaller ==
    \A k \in Keys :
        (overlap /\ ~teardown /\ Quiescent /\ GetReturned(k))
            => /\ Cardinality(Built(k)) = 1
               /\ got[k] = Built(k)
               /\ getErrs[k] = 0

\* C1 amended: concurrent GetProjectDB calls for one key construct at most one
\* handle and every caller that receives a handle receives that one; when no
\* NewDB call fails, exactly one handle is constructed and every caller
\* receives it.
C1_AtMostOneHandleSharedByCallers ==
    \A k \in Keys :
        ~teardown
            => /\ Cardinality(Built(k)) <= 1
               /\ got[k] \subseteq Built(k)
               /\ \A p \in Procs :
                     (ret[p].op = "get" /\ ~ret[p].err) => ret[p].db \in HandleIds
               /\ (Quiescent /\ GetReturned(k) /\ newDBFails[k] = 0)
                     => /\ Cardinality(Built(k)) = 1
                        /\ got[k] = Built(k)
                        /\ getErrs[k] = 0

\* C1 witness: two concurrent callers, both of whom missed on the fast path
\* while the key was unregistered, have returned the same handle.
C1_Witness ==
    /\ overlap /\ ~teardown /\ Quiescent
    /\ \E p, q \in Procs :
          /\ p # q
          /\ ret[p].op = "get" /\ ret[q].op = "get"
          /\ ret[p].slow /\ ret[q].slow
          /\ ret[p].db # NoDB
          /\ ret[p].db = ret[q].db

\* C3: in every reachable state at most one open handle exists per key; a
\* registered key maps to one handle constructed for that key, and an open
\* handle is the registered one or the one being stored under the write lock.
C3_OneOpenHandlePerKey ==
    \A k \in Keys :
        /\ Cardinality(OpenHandles(k)) <= 1
        /\ conns[k] # NoDB => conns[k] \in Built(k)
        /\ OpenHandles(k) \subseteq
              {conns[k]} \cup {localDB[p] : p \in {q \in Procs : pc[q] = "g_store"}}

\* C3 witness: a key whose first handle was closed has been opened again while
\* other calls interleave.
C3_Witness ==
    \E k \in Keys :
        /\ Cardinality(Built(k)) = 2
        /\ Cardinality(OpenHandles(k)) = 1
        /\ conns[k] \in OpenHandles(k)

\* C4 as stated: for a given key NewDB is invoked at most once across all
\* concurrent GetProjectDB callers, whether it returns a handle or an error.
C4_NewDBInvokedAtMostOnce ==
    \A k \in Keys : (overlap /\ ~teardown) => newDBCalls[k] <= 1

\* C4 amended: for a given key at most one NewDB invocation returns a handle;
\* NewDB is invoked again only after every earlier invocation for the key
\* returned an error, and no two invocations are in progress at once.
C4_NewDBInvokedAgainOnlyAfterError ==
    /\ \A k \in Keys :
          ~teardown => /\ newDBCalls[k] <= newDBFails[k] + 1
                       /\ Cardinality(Built(k)) <= 1
    /\ Cardinality({p \in Procs : pc[p] \in {"g_open", "g_store"}}) <= 1

\* C4 witness: among concurrent callers NewDB ran twice for one key, the
\* first time returning an error and the second time a handle.
C4_Witness ==
    \E k \in Keys :
        /\ overlap /\ ~teardown
        /\ newDBCalls[k] = 2
        /\ newDBFails[k] = 1
        /\ Cardinality(Built(k)) = 1

(***************************************************************************)
(* Properties of the auth middleware (checked under SpecAuth), stated on   *)
(* what the client sent (req) and what the identity provider answers (env).*)
(***************************************************************************)

\* the cookie is present and decodes (prefix, base64, JSON) to a bundle
DecodesToBundle(r) ==
    /\ r.hasCookie
    /\ DecodeString(TrimPrefix(r.cookie)).ok
    /\ Unmarshal(TrimPrefix(r.cookie)).ok

\* the bundle the client sent
SentBundle(r) == Unmarshal(TrimPrefix(r.cookie)).obj

\* the cookie decodes and its access_token is a string
HasAccessToken(r) == DecodesToBundle(r) /\ SentBundle(r)["access_token"].t = "string"

SentAccessToken(r) == SentBundle(r)["access_token"].v

\* the bundle holds a non-empty string refresh token
HasRefreshToken(b) == b["refresh_token"].t = "string" /\ b["refresh_token"].v # ""

\* the request is past the bypass check on a path no pattern matches
NonBypass == apc # "idle" /\ ~Excluded(req.path)

\* the middleware returned an HTTPError of this status without invoking next
Failed(code) == result.kind = "error" /\ result.code = code /\ nextCalls = 0

\* C2: on a non-bypass path next is invoked only after an access token (the
\* one sent, or the refreshed one) verified against the fetched key set, and
\* the identity bound into the context is that token's subject claim.
C2_NextOnlyAfterVerifiedToken ==
    (NonBypass /\ nextCalls > 0)
        => /\ nextCalls = 1
           /\ env.jwksOk /\ jwks = env.keys
           /\ HasAccessToken(req)
           /\ refreshCalls > 0 => env.refreshOk
           /\ LET t == IF refreshCalls = 0 THEN SentAccessToken(req)
                                           ELSE env.resp.AccessToken
              IN VerifyJWT(t, jwks) /\ ctxUser = SubjectOf(t)

\* C2 witness: next ran for a request whose sent token was expired and whose
\* refreshed token verified; the identity is the refreshed token's subject.
C2_Witness ==
    /\ NonBypass /\ nextCalls = 1 /\ refreshCalls = 1
    /\ SentAccessToken(req) = "jwt.u1.expired"
    /\ ctxUser = "u2"

\* C5: the refresh endpoint is called at most once per request and only after
\* the first verification failed on a bundle with a non-empty string refresh
\* token; a token that verifies causes no refresh call, and a failed
\* verification without such a refresh token ends in 401 with no refresh call.
C5_RefreshAtMostOnceWhenNeeded ==
    /\ refreshCalls <= 1
    /\ refreshCalls = 1
          => /\ NonBypass /\ HasAccessToken(req) /\ verifyCalls >= 1
             /\ ~VerifyJWT(SentAccessToken(req), jwks)
             /\ HasRefreshToken(SentBundle(req))
    /\ (apc = "done" /\ NonBypass /\ env.jwksOk /\ HasAccessToken(req))
          => /\ VerifyJWT(SentAccessToken(req), env.keys) => refreshCalls = 0
             /\ (~VerifyJWT(SentAccessToken(req), env.keys)
                    /\ ~HasRefreshToken(SentBundle(req)))
                   => refreshCalls = 0 /\ verifyCalls = 1 /\ Failed(StatusUnauthorized)

\* C5 witness: the sent token failed verification, the refresh token is the
\* empty string, and the request ended in 401 without a refresh call.
C5_Witness ==
    /\ apc = "done" /\ NonBypass /\ verifyCalls = 1
    /\ SentBundle(req)["refresh_token"] = JStr("")
    /\ refreshCalls = 0
    /\ Failed(StatusUnauthorized)

\* the bundle after the refresh merge: the four refreshed fields from the
\* response, every other field as sent
MergedBundle(b, resp) ==
    [f \in Fields |->
        CASE f = "access_token"  -> JStr(resp.AccessToken)
          [] f = "refresh_token" -> JStr(resp.RefreshToken)
          [] f = "expires_at"    -> JNum(resp.ExpiresAt)
          [] f = "user"          -> JObj(resp.User)
          [] OTHER               -> b[f]]

\* the request of C6: a non-bypass request whose key set was fetched, whose
\* access token does not verify, whose refresh token the endpoint accepts,
\* answering with an access token that verifies
RefreshScenario ==
    /\ NonBypass /\ env.jwksOk /\ HasAccessToken(req)
    /\ ~VerifyJWT(SentAccessToken(req), env.keys)
    /\ HasRefreshToken(SentBundle(req))
    /\ env.refreshOk
    /\ VerifyJWT(env.resp.AccessToken, env.keys)

\* C6: a request with an expired access token and a valid refresh token makes
\* exactly one refresh call, emits a cookie carrying the merged bundle with
\* HttpOnly, Secure, SameSite=Lax, the configured Domain and Path=/, and
\* proceeds to next with the identity of the refreshed token.
C6_RefreshEmitsCookieAndProceeds ==
    (apc = "done" /\ RefreshScenario)
        => /\ refreshCalls = 1
           /\ Len(setCookie) = 1
           /\ setCookie[1].Name = cfg.AuthTokenName
           /\ setCookie[1].Value.prefix
           /\ DecodeString(TrimPrefix(setCookie[1].Value)).ok
           /\ Unmarshal(TrimPrefix(setCookie[1].Value)).obj
                 = MergedBundle(SentBundle(req), env.resp)
           /\ setCookie[1].HttpOnly /\ setCookie[1].Secure
           /\ setCookie[1].SameSite = "Lax"
           /\ setCookie[1].Domain = cfg.CookieDomain
           /\ setCookie[1].Path = "/"
           /\ nextCalls = 1 /\ result.kind = "next"
           /\ ctxUser = SubjectOf(env.resp.AccessToken)

\* C6 witness: an expired token for u1 was refreshed into a token for u2 and
\* the request went on to next.
C6_Witness ==
    /\ apc = "done" /\ RefreshScenario
    /\ TokenInfo(SentAccessToken(req)).expired
    /\ env.resp.AccessToken = "jwt.u2.ok"
    /\ nextCalls = 1

\* C7 as stated: when the cookie is absent or does not decode (base64, JSON,
\* access_token field) no network call is made for the request: no key-set
\* fetch and no refresh call.
C7_NoNetworkCallOnCookieFailure ==
    (NonBypass /\ ~HasAccessToken(req)) => jwksFetches = 0 /\ refreshCalls = 0

C9_BypassSkipsAuth ==
    (apc # "idle" /\ Excluded(req.path))
        => /\ jwksFetches = 0 /\ cookieReads = 0
           /\ verifyCalls = 0 /\ refreshCalls = 0
           /\ apc \in {"bypass", "done"}
           /\ apc = "done" => nextCalls = 1 /\ result.kind = "next" /\ ctxUser = Unset

\* C9 witness: a request for /favicon.ico carrying a cookie that is not even
\* base64 went on to next.
C9_Witness ==
    /\ apc = "done" /\ req.path = "/favicon.ico"
    /\ req.hasCookie /\ ~req.cookie.b64ok
    /\ nextCalls = 1

\* the terminal states of the spec's state machine, and its transitions
SpecTerminals ==
    {"EXCLUDED", "NO_COOKIE", "DECODE_FAIL", "VERIFY_OK", "FAIL", "REFRESH_FAIL",
     "OK", "REVERIFY_FAIL"}

SpecTransitions ==
    { <<"START", "EXCLUDED">>, <<"START", "NO_COOKIE">>, <<"START", "DECODE_FAIL">>,
      <<"START", "DECODE_OK">>, <<"DECODE_OK", "VERIFY_OK">>,
      <<"DECODE_OK", "VERIFY_FAIL">>, <<"VERIFY_FAIL", "FAIL">>,
      <<"VERIFY_FAIL", "REFRESH_ATTEMPT">>, <<"REFRESH_ATTEMPT", "REFRESH_FAIL">>,
      <<"REFRESH_ATTEMPT", "REVERIFY">>, <<"REVERIFY", "OK">>,
      <<"REVERIFY", "REVERIFY_FAIL">> }

\* the trail starts at START and takes only these transitions
Follows(transitions) ==
    /\ Len(trail) >= 1 /\ trail[1] = "START"
    /\ \A i \in 1..(Len(trail) - 1) : <<trail[i], trail[i + 1]>> \in transitions

\* the trail ends in one of these states and passes through no other of them
EndsIn(terminals) ==
    /\ trail[Len(trail)] \in terminals
    /\ \A i \in 1..(Len(trail) - 1) : trail[i] \notin terminals

\* C10 as stated: a request follows only the transitions of the spec's state
\* machine and ends in exactly one of its eight terminal states.
C10_OnlySpecTerminalStates ==
    apc = "done" => Follows(SpecTransitions) /\ EndsIn(SpecTerminals)

\* the code's terminal states: the spec's, the key-set fetch failure, and the
\* claims of a verified token not being a claims map
CodeTerminals == SpecTerminals \cup {"JWKS_FAIL", "CLAIMS_FAIL"}

CodeTransitions ==
    SpecTransitions \cup { <<"START", "JWKS_FAIL">>, <<"DECODE_OK", "CLAIMS_FAIL">>,
                           <<"REVERIFY", "CLAIMS_FAIL">> }

\* the terminal state the state machine assigns to a request
ExpectedTerminal(r, e) ==
    IF Excluded(r.path) THEN "EXCLUDED"
    ELSE IF ~e.jwksOk THEN "JWKS_FAIL"
    ELSE IF ~r.hasCookie THEN "NO_COOKIE"
    ELSE IF ~HasAccessToken(r) THEN "DECODE_FAIL"
    ELSE IF VerifyJWT(SentAccessToken(r), e.keys) THEN "VERIFY_OK"
    ELSE IF ~HasRefreshToken(SentBundle(r)) THEN "FAIL"
    ELSE IF ~e.refreshOk THEN "REFRESH_FAIL"
    ELSE IF VerifyJWT(e.resp.AccessToken, e.keys) THEN "OK"
    ELSE "REVERIFY_FAIL"

\* what the middleware returns in a terminal state
TerminalResult(t) ==
    CASE t \in {"EXCLUDED", "VERIFY_OK", "OK"} -> result.kind = "next" /\ nextCalls = 1
      [] t = "DECODE_FAIL" -> Failed(StatusBadRequest)
      [] t = "JWKS_FAIL" -> Failed(StatusInternalServerError)
      [] OTHER -> Failed(StatusUnauthorized)

\* C10 amended: a request follows only the transitions of the spec's state
\* machine extended by START -> JWKS_FAIL(500) (the key-set fetch, made before
\* the cookie is read, failed) and by CLAIMS_FAIL(401) (a verified token whose
\* claims are no claims map), and ends in exactly one terminal state of that
\* machine, the one its inputs determine, with that state's result.
C10_TerminalStatesWithKeySetFailure ==
    apc = "done"
        => /\ Follows(CodeTransitions)
           /\ EndsIn(CodeTerminals)
           /\ trail[Len(trail)] = ExpectedTerminal(req, env)
           /\ TerminalResult(trail[Len(trail)])

\* C10 witness: a request with a cookie ended in JWKS_FAIL with status 500.
C10_Witness ==
    /\ apc = "done" /\ req.hasCookie
    /\ trail = <<"START", "JWKS_FAIL">>
    /\ Failed(StatusInternalServerError)

(***************************************************************************)
(* Properties of the server (checked under SpecServer).                    *)
(***************************************************************************)

\* the positions in events of the events of one kind
EventsOf(kind) == {i \in 1..Len(events) : events[i].ev = kind}

\* the routes of a list a request method selects: the method's own and the
\* wildcard's
RoutesMatching(rs, method) ==
    {k \in 1..Len(rs) : rs[k].Method = "" \/ rs[k].Method = method}

\* the request went through the chain to the dispatcher and was answered
DispatchedAndDone == spc = "done" /\ EventsOf("dispatch") # {}

\* C11: of any two middlewares registered with Use, the one registered first
\* runs before the other on the way in and after it on the way out, for every
\* pattern: the handler Start registers has the middlewares in registration
\* order from the outermost in.
C11_FirstRegisteredIsOutermost ==
    /\ \A p \in Patterns :
          mux[p].registered =>
              /\ Len(mux[p].chain) = Len(srv.middlewares)
              /\ \A d \in 1..Len(mux[p].chain) :
                    mux[p].chain[d] = [mw |-> srv.middlewares[d], reg |-> d]
    /\ \A i, j \in EventsOf("in") : i < j => events[i].n < events[j].n
    /\ \A i, j \in EventsOf("out") : i < j => events[i].n > events[j].n

\* a request went in through two middlewares to a handler and out through
\* them in the reverse order
C11_Witness ==
    /\ spc = "done" /\ Len(srv.middlewares) >= 2
    /\ \E i, j, h, k, l \in 1..Len(events) :
          /\ i < j /\ j < h /\ h < k /\ k < l
          /\ events[i] = Ev("in", srv.middlewares[1], 1)
          /\ events[j] = Ev("in", srv.middlewares[2], 2)
          /\ events[h].ev = "handler"
          /\ events[k] = Ev("out", srv.middlewares[2], 2)
          /\ events[l] = Ev("out", srv.middlewares[1], 1)

\* C12: the dispatcher invokes only a handler registered for the request's
\* pattern under the request's method or under the wildcard; it invokes one
\* when the pattern has such a route, and when it has none the answer is 405
\* and no handler is invoked.
C12_DispatchByMethodOrWildcard ==
    LET rs == mux[muxPattern].routes
        ms == RoutesMatching(rs, sreq.method)
    IN  /\ \A i \in EventsOf("handler") :
              /\ events[i].n \in ms
              /\ events[i].who = rs[events[i].n].Handler
              /\ rs[events[i].n].Pattern = muxPattern
        /\ DispatchedAndDone =>
              IF ms = {}
              THEN /\ EventsOf("handler") = {}
                   /\ w.status = StatusMethodNotAllowed
                   /\ w.body = <<"Method not allowed\n">>
              ELSE /\ EventsOf("handler") # {}
                   /\ w.body # <<"Method not allowed\n">>

\* a POST was answered by a handler registered under the wildcard
C12_Witness ==
    /\ DispatchedAndDone /\ sreq.method = "POST"
    /\ \E i \in EventsOf("handler") : mux[muxPattern].routes[events[i].n].Method = ""

\* C13: exactly one handler is invoked for a request the dispatcher has a
\* route for: that of the first-registered route of the pattern whose method
\* is the request's or the wildcard; no later route's handler is invoked.
C13_FirstRegisteredRouteOnly ==
    LET rs == mux[muxPattern].routes
        ms == RoutesMatching(rs, sreq.method)
    IN  /\ Cardinality(EventsOf("handler")) <= 1
        /\ \A i \in EventsOf("handler") : \A k \in ms : events[i].n <= k
        /\ (DispatchedAndDone /\ ms # {}) => Cardinality(EventsOf("handler")) = 1

\* a request two routes of its pattern match, a wildcard registered before
\* the method's own route, was answered by the first
C13_Witness ==
    /\ DispatchedAndDone
    /\ LET rs == mux[muxPattern].routes
       IN  /\ Len(rs) >= 2
           /\ rs[1].Method = "" /\ rs[2].Method = sreq.method
           /\ rs[1].Handler # rs[2].Handler
           /\ \E i \in EventsOf("handler") : events[i].n = 1

\* C14: handleError writes an HTTPError as its code and its message, and any
\* other error as 500 with the text "Internal Server Error", which is not
\* the error's detail; the status is the one written unless the handler had
\* written one before it failed.
C14_TranslatorWritesStatusAndMessage ==
    \A i \in 1..Len(translations) :
        LET t == translations[i]
            isHTTP == t.err.kind = "error"
            code == IF isHTTP THEN t.err.code ELSE StatusInternalServerError
            msg == IF isHTTP THEN t.err.msg ELSE "Internal Server Error"
        IN  /\ t.err # Nil
            /\ t.after.body = Append(t.before.body, msg \o "\n")
            /\ t.before.status = 0 => t.after.status = code
            /\ ~isHTTP => /\ msg # t.err.msg
                          /\ \A j \in 1..Len(t.after.body) :
                                t.after.body[j] # t.err.msg \o "\n"

\* an error that is no HTTPError was answered with 500 and the generic text
C14_Witness ==
    /\ spc = "done" /\ w.status = StatusInternalServerError
    /\ w.body = <<"Internal Server Error\n">>
    /\ \E i \in 1..Len(translations) :
          /\ translations[i].err = EncodeError
          /\ translations[i].before = NewWriter

\* C15 as stated: every failure is translated at the outermost boundary, by
\* the function Start registers with the mux, and no stage writes a failure
\* status itself: the only writers of a status of 400 or above are
\* handleError called there.
C15_FailuresTranslatedOnlyAtBoundary ==
    /\ \A i \in 1..Len(translations) : translations[i].at = "finalHandler"
    /\ \A i \in EventsOf("write") :
          (events[i].n >= 400 /\ events[i].who # "mux") => events[i].who = "handleError"

\* the server handlers.SetupRoutes set up: the one with a route for
\* /api/tables
Assembled == srv.routes[ApiTables] # <<>>

IsIngress(e) == e.ev \in {"in", "dispatch"}

\* the stages that have begun for the request, in order
StagesEntered ==
    LET ins == SelectSeq(events, IsIngress)
    IN  [i \in 1..Len(ins) |-> ins[i].who]

\* C16: in the assembled server a request whose terminal handler runs has
\* gone through Logging, CORS, WorkingDirectory, Auth, Tenant and the
\* dispatcher, in this order, and the tenant middleware begins only after
\* the auth middleware has run for the request and passed it on.
C16_AssembledStageOrder ==
    Assembled =>
        /\ EventsOf("handler") # {} =>
              StagesEntered = <<"LoggingMiddleware", "CORSMiddleware",
                                "WorkingDirectoryMiddleware", "auth.Middleware",
                                "database.Middleware", "dispatcher">>
        /\ \A j \in EventsOf("in") :
              events[j].who = "database.Middleware" =>
                  /\ \E i \in EventsOf("in") : i < j /\ events[i].who = "auth.Middleware"
                  /\ \A i \in EventsOf("out") : i < j => events[i].who # "auth.Middleware"

\* an authenticated POST /api/db went through the six stages to
\* DatabaseHandler with a connection in its context
C16_Witness ==
    /\ Assembled /\ spc = "done"
    /\ sreq.method = "POST" /\ sreq.path = ApiDb
    /\ ctx.user = CtxString(U1) /\ ctx.db # NoHandle
    /\ \E i \in EventsOf("handler") : events[i].who = "DatabaseHandler"
    /\ w.status = StatusOK

\* an id without separator or parent-directory tokens
PathSafe(id) == \A i \in 1..Len(id) : id[i] \notin {"/", ".."}

\* C17 as stated: two requests are given the same handle exactly when their
\* (user id, project id) pairs are equal, and distinct pairs have distinct
\* registry keys, distinct handles and distinct database files.
C17_DistinctTenantsShareNothing ==
    \A a, b \in resolved :
        /\ (a.user = b.user /\ a.project = b.project) <=> a.db = b.db
        /\ (a.user # b.user \/ a.project # b.project) =>
              /\ a.key # b.key
              /\ a.db # b.db
              /\ a.file # b.file

\* C18 as stated: no handle is opened and no connection is injected for a
\* user id or project id containing "/" or "..".
C18_UnsafeIdsOpenNothing ==
    /\ \A r \in resolved : PathSafe(r.user) /\ PathSafe(r.project)
    /\ \A h \in opened : \E r \in resolved : r.db = h /\ PathSafe(r.project)

\* the tenant middleware has begun for the request; it was ev-th to run
TenantRan == \E i \in EventsOf("in") : events[i].who = "database.Middleware"

\* the tenant middleware returned without calling next
TenantReturnedEarly ==
    \E i \in EventsOf("in") :
        /\ events[i].who = "database.Middleware"
        /\ i < Len(events)
        /\ events[Len(events)].ev = "out" \/ spc = "done"
        /\ \A j \in (i + 1)..Len(events) : events[j].ev \in {"out", "write", "call"}
        /\ \E j \in (i + 1)..Len(events) : events[j] = Ev("out", "database.Middleware", events[i].n)

\* the tenant middleware called next
TenantCalledNext ==
    \E i \in EventsOf("in") :
        /\ events[i].who = "database.Middleware"
        /\ \/ spc = "serving" /\ dir = "in" /\ depth = events[i].n + 1 /\ i = Len(events)
           \/ \E j \in (i + 1)..Len(events) : events[j].ev \in {"in", "dispatch"}

\* the request context holds no non-empty string identity
NoIdentity == ~(ctx.user.bound /\ ctx.user.isString /\ ctx.user.s # <<>>)

\* a registry access or an open call was made for the request
RegistryTouched == \E i \in EventsOf("call") : events[i].who \in {"GetProjectDB", "NewDB"}

\* the request is answered 400, by the tenant middleware's failure
Answered400 ==
    /\ spc = "serving" => retErr.kind = "error" /\ retErr.code = StatusBadRequest
    /\ spc = "done" => w.status = StatusBadRequest

\* a POST whose JSON body, of a declared length, names one of the four
\* project-management actions
ProjectManagementPost ==
    /\ sreq.method = "POST"
    /\ sreq.body.present /\ sreq.body.declared
    /\ sreq.body.readable /\ sreq.body.jsonok
    /\ sreq.body.action \in {"create_project", "list_projects", "delete_project",
                             "get_project"}

\* C19 as stated: a connection is resolved only with a non-empty string
\* identity in the context, and without one the tenant middleware fails with
\* 400 and makes no registry access and no open call.
C19_NoIdentityFails400 ==
    (TenantRan /\ NoIdentity) =>
        /\ ~RegistryTouched
        /\ TenantReturnedEarly
        /\ Answered400

\* C19: a connection is resolved only with a non-empty string identity in
\* the context; without one the tenant middleware makes no registry access
\* and no open call, and fails with 400 unless the request is a POST whose
\* body action is a project-management action, which it passes on to the
\* next stage with no connection.
C19_NoIdentityFails400UnlessSkipped ==
    /\ RegistryTouched => ~NoIdentity
    /\ (TenantRan /\ NoIdentity) =>
          /\ ~RegistryTouched
          /\ ctx.db = NoHandle
          /\ IF ProjectManagementPost
                THEN TenantCalledNext
                ELSE TenantReturnedEarly /\ Answered400

\* a request whose verified token has no string subject was failed with 400
\* by the tenant middleware
C19_Witness ==
    /\ Assembled /\ spc = "done"
    /\ ctx.user = CtxNil
    /\ TenantRan /\ TenantReturnedEarly /\ ~ProjectManagementPost
    /\ w.status = StatusBadRequest /\ w.body = <<"Missing user context\n">>

\* ---- the refresh merge (checked under SpecAuth) ----

\* the bundle fields the refresh merge assigns
RefreshedFields == {"access_token", "refresh_token", "expires_at", "user"}

\* the value the refresh response holds for a refreshed field
ResponseValue(resp, f) ==
    CASE f = "access_token"  -> JStr(resp.AccessToken)
      [] f = "refresh_token" -> JStr(resp.RefreshToken)
      [] f = "expires_at"    -> JNum(resp.ExpiresAt)
      [] f = "user"          -> JObj(resp.User)

\* the bundle a client decodes from the re-issued cookie
ReissuedBundle == Unmarshal(TrimPrefix(setCookie[1].Value)).obj

\* C20: the refresh merge overwrites exactly access_token, refresh_token,
\* expires_at and user with the refresh response's values; every other field
\* of the decoded bundle is carried unchanged into the re-issued cookie.
C20_MergeOverwritesExactlyFourFields ==
    /\ apc \in {"set_cookie", "reverify"} =>
          /\ \A f \in RefreshedFields : tokenData[f] = ResponseValue(refreshResp, f)
          /\ \A f \in Fields \ RefreshedFields : tokenData[f] = SentBundle(req)[f]
    /\ Len(setCookie) = 1 =>
          /\ Unmarshal(TrimPrefix(setCookie[1].Value)).ok
          /\ \A f \in RefreshedFields : ReissuedBundle[f] = ResponseValue(env.resp, f)
          /\ \A f \in Fields \ RefreshedFields : ReissuedBundle[f] = SentBundle(req)[f]

\* a cookie was re-issued whose four refreshed fields all differ from the
\* ones sent and whose provider_token is the one sent
C20_Witness ==
    /\ Len(setCookie) = 1
    /\ \A f \in RefreshedFields : ReissuedBundle[f] # SentBundle(req)[f]
    /\ SentBundle(req)["provider_token"] = JStr("pt")
    /\ ReissuedBundle["provider_token"] = JStr("pt")

\* ---- the cookie round trip (checked under SpecAuth) ----

\* the auth middleware's decode steps applied to a cookie value: strip the
\* prefix, base64-decode, JSON-parse
DecodeSteps(v) ==
    LET stripped == TrimPrefix(v)
        bytes == DecodeString(stripped)
        parsed == Unmarshal(bytes.bytes)
    IN  [ok |-> bytes.ok /\ parsed.ok,
         obj |-> IF bytes.ok /\ parsed.ok THEN parsed.obj ELSE EmptyBundle]

C23_ValidationFailsIffSettingEmpty ==
    /\ boot # "start" =>
          (boot = "fatal" <=> \E f \in ConfigFields : config[f] = "")
    /\ boot = "fatal" =>
          /\ srv = NewServer /\ ~started
          /\ spc = "idle" /\ events = <<>> /\ resolved = {}
    /\ (srv # NewServer \/ started \/ spc # "idle") => boot = "validated"

\* startup was aborted for a configuration in which only the cookie domain
\* is empty
C23_Witness ==
    /\ boot = "fatal"
    /\ config["CookieDomain"] = ""
    /\ \A f \in ConfigFields \ {"CookieDomain"} : config[f] # ""

\* ---- the registry without eviction (checked under SpecPool) ----

\* C24: absent any CloseProjectDB or CloseAllProjectDBs call, once
\* GetProjectDB has returned handle h for a key every later GetProjectDB for
\* that key returns the same h, and the set of registered keys never shrinks:
\* no step removes or replaces a registered handle, and the handles returned
\* for a key are one handle, the registered one.
C24_NoEviction ==
    [][ ~teardown' =>
          \A k \in Keys :
             /\ conns[k] # NoDB => conns'[k] = conns[k]
             /\ got[k] \subseteq got'[k]
             /\ got'[k] # {} => got'[k] = {conns'[k]} ]_vars

\* with no close call made, GetProjectDB returned the registered handle of a
\* key on the slow path and later again on the fast path, while the other
\* key was registered too
C24_Witness ==
    /\ ~teardown
    /\ \A k \in Keys : conns[k] # NoDB
    /\ \E p \in Procs, q \in Procs :
          /\ p # q /\ ret[p].op = "get" /\ ret[q].op = "get"
          /\ ret[p].db # NoDB /\ ret[p].db = ret[q].db
          /\ ret[p].slow /\ ~ret[q].slow

\* ---- the lock around the registry map (checked under SpecPool) ----

\* positions whose next step reads projectDBs.conns
MapReadPositions == {"g_fast", "g_dcheck", "c_body", "a_loop"}

\* positions whose next step inserts into or deletes from projectDBs.conns
MapWritePositions == {"g_store", "c_delete", "a_loop"}

\* the caller holds the lock in shared mode
HoldsShared(p) == p \in rwReaders

\* the caller holds the lock in exclusive mode
HoldsExclusive(p) ==
    /\ rwWriter = p
    /\ pc[p] \notin {"g_lockwait", "c_lockwait", "a_lockwait"}

\* C25: every read of the registry map happens while holding the registry
\* lock in shared or exclusive mode and every insert or delete while holding
\* it in exclusive mode, in GetProjectDB, CloseProjectDB and
\* CloseAllProjectDBs; no writer accesses the map concurrently with another
\* reader or writer.
C25_MapAccessUnderLock ==
    /\ \A p \in Procs :
          /\ pc[p] \in MapReadPositions => HoldsShared(p) \/ HoldsExclusive(p)
          /\ pc[p] \in MapWritePositions => HoldsExclusive(p)
    /\ \A p \in Procs :
          pc[p] \in MapWritePositions =>
              \A q \in Procs \ {p} :
                  pc[q] \notin MapReadPositions \cup MapWritePositions
    /\ \A p \in Procs : HoldsExclusive(p) => rwReaders = {}

\* a caller is about to insert under the exclusive lock while another is kept
\* out of the fast path and a third waits to close
C25_Witness ==
    \E p \in Procs, q \in Procs, r \in Procs :
        /\ pc[p] = "g_store" /\ HoldsExclusive(p)
        /\ pc[q] = "g_rlock"
        /\ pc[r] \in {"c_lock", "a_lock"}

FailedAt(m) ==
    \E i \in EventsOf("in") :
        /\ events[i].who = m
        /\ \A j \in (i + 1)..Len(events) : events[j].ev \notin {"in", "dispatch", "handler"}
        /\ \E j \in (i + 1)..Len(events) : events[j] = Ev("out", m, events[i].n)

\* the request failed at the auth or the tenant stage
FailedAtAuthOrTenant ==
    /\ spc \in {"serving", "done"}
    /\ FailedAt("auth.Middleware") \/ FailedAt("database.Middleware")

JoinedWithOneSlash(prefix, pat, full) ==
    \E a \in {prefix, SubSeq(prefix, 1, Len(prefix) - 1)},
       b \in {pat, SubSeq(pat, 2, Len(pat))} :
        /\ prefix \in {a, a \o <<"/">>}
        /\ pat \in {b, <<"/">> \o b}
        /\ a = <<>> \/ a[Len(a)] # "/"
        /\ b = <<>> \/ b[1] # "/"
        /\ full = a \o <<"/">> \o b

\* C29: a route registered through Group(prefix) is dispatched exactly as if
\* registered directly on the server at prefix + "/" + pattern with exactly
\* one separating slash (the prefix with at most one trailing slash, the
\* pattern with at most one leading one), and an empty or "/" pattern
\* registers prefix + "/"; checked of every server a group can be made on,
\* that is before Start.
C29_GroupRouteIsPrefixedRoute ==
    ~started =>
    \A prefix \in GroupPrefixes, pat \in GroupPatterns :
        /\ JoinedWithOneSlash(prefix, pat, buildFullPattern(prefix, pat))
        /\ pat \in {<<>>, <<"/">>} => buildFullPattern(prefix, pat) = ApiRoot
        /\ buildFullPattern(prefix, pat) \in Patterns
        /\ \A full \in Patterns :
              JoinedWithOneSlash(prefix, pat, full) =>
                 /\ GroupGET(srv, prefix, pat, "HealthHandler")
                       = GET(srv, full, "HealthHandler")
                 /\ GroupPOST(srv, prefix, pat, "HealthHandler")
                       = POST(srv, full, "HealthHandler")
                 /\ \A p \in Patterns :
                       Wrap(GroupGET(srv, prefix, pat, "HealthHandler"), p)
                          = Wrap(GET(srv, full, "HealthHandler"), p)

\* a server not yet started holds a route that only a group registration
\* with an empty or "/" pattern makes: the one at /api/
C29_Witness ==
    /\ boot = "validated" /\ ~started
    /\ srv.routes[ApiRoot] # <<>>
    /\ \A r \in RegisteredAlone : r.pattern # ApiRoot

\* ---- a failed open (checked under SpecServer) ----

\* the registry key the request in progress resolves to, once the tenant
\* stage has read its body and query
RequestKey ==
    LET jreq == ParsedRequest(sreq.method, sreq.body)
    IN  DBKey(ctx.user.s, IF jreq.ProjectID = <<>> THEN sreq.query ELSE jreq.ProjectID)

\* the number of NewDB calls the request in progress has made
NewDBCallsMade == Cardinality({i \in EventsOf("call") : events[i].who = "NewDB"})

\* the tenant stage called GetProjectDB, NewDB failed, and the stage returned
OpenFailed ==
    /\ spc \in {"serving", "done"}
    /\ FailedAt("database.Middleware")
    /\ NewDBCallsMade > 0

\* C30: when NewDB fails, GetProjectDB returns the error and no handle,
\* stores nothing under the key (the registry is as the request found it),
\* has called NewDB once and not again, and a later GetProjectDB for the same
\* key calls NewDB again, whether or not it then succeeds; the tenant
\* middleware turns the error into a 500 failure and does not call the next
\* stage.
C30_FailedOpenLeavesNoEntry ==
    OpenFailed =>
       LET base == Join(ctx.workdir, <<"projects">>)
           failed == GetProjectDB(projectDBs, base, RequestKey, FALSE)
       IN  /\ NewDBCallsMade = 1
           /\ ctx.db = NoHandle
           /\ projectDBs = atStart.projectDBs /\ opened = atStart.opened
           /\ \A e \in projectDBs : e.key # RequestKey
           /\ failed.err # Nil /\ failed.db = NoHandle
           /\ failed.conns = projectDBs /\ failed.opens = {} /\ failed.newDBs = 1
           /\ \A again \in BOOLEAN :
                 GetProjectDB(failed.conns, base, RequestKey, again).newDBs = 1
           /\ \A i \in EventsOf("in") : events[i].who = "database.Middleware" =>
                 \A j \in (i + 1)..Len(events) :
                    events[j].ev \notin {"in", "dispatch", "handler"}
           /\ (dir = "out" /\ spc = "serving" /\ depth >= 1) =>
                 /\ retErr # Nil
                 /\ retErr.code = StatusInternalServerError
           /\ spc = "done" => w.status = StatusInternalServerError

\* a request whose open failed was answered with 500 while the connection of
\* an earlier request stayed registered
C30_Witness ==
    /\ spc = "done" /\ OpenFailed
    /\ w.status = StatusInternalServerError
    /\ projectDBs # {}

\* ---- teardown (checked under SpecPool) ----

\* caller p returns from its call in this step
Returns(p) == pc[p] # "idle" /\ pc'[p] = "idle"

\* C31: teardown removes registry entries whatever Close reports.  While a
\* CloseProjectDB(key) runs under the lock no other entry changes, and when it
\* returns the registry has no entry for key: an absent key changes nothing and
\* returns nil, a registered one has been closed once and the error of that
\* Close, if any, is returned.  While CloseAllProjectDBs runs each entry it
\* removes is closed as it is removed and a failing Close replaces lastErr;
\* when it returns the registry is empty, every handle that was registered
\* has been closed exactly once, and lastErr is returned.
C31_TeardownRemovesEntries ==
    [][ \A p \in Procs :
          /\ pc[p] \in {"c_body", "c_delete"} =>
                /\ \A k \in Keys \ {opKey[p]} : conns'[k] = conns[k]
                /\ Returns(p) =>
                      /\ conns'[opKey[p]] = NoDB
                      /\ ret'[p].op = "close"
                      /\ pc[p] = "c_body" =>
                            /\ conns[opKey[p]] = NoDB
                            /\ conns' = conns /\ handles' = handles
                            /\ ret'[p].closeErr = NoErr /\ ~ret'[p].err
                      /\ pc[p] = "c_delete" =>
                            /\ conns[opKey[p]] = localDB[p]
                            /\ handles[localDB[p]].closes = 1
                            /\ ~handles[localDB[p]].open
                            /\ ret'[p].err = handles[localDB[p]].failed
                            /\ ret'[p].closeErr =
                                  (IF handles[localDB[p]].failed THEN localDB[p] ELSE NoErr)
          /\ pc[p] = "a_loop" =>
                /\ \A k \in Keys : conns'[k] \in {conns[k], NoDB}
                /\ \A h \in HandleIds :
                      IF conns[handles[h].key] = h /\ conns'[handles[h].key] = NoDB
                      THEN /\ handles[h].closes = 0 /\ handles'[h].closes = 1
                           /\ ~handles'[h].open
                           /\ lastErr'[p] = (IF handles'[h].failed THEN h ELSE lastErr[p])
                      ELSE handles'[h] = handles[h]
                /\ Returns(p) =>
                      /\ \A k \in Keys : conns'[k] = NoDB
                      /\ \A h \in HandleIds : handles[h].closes = 1 /\ ~handles[h].open
                      /\ ret'[p].op = "closeall"
                      /\ ret'[p].closeErr = lastErr[p]
                      /\ ret'[p].err = (lastErr[p] # NoErr) ]_vars

\* a CloseAllProjectDBs has emptied a registry of two entries whose closes
\* both failed, and has returned the error of one of them
C31_Witness ==
    \E p \in Procs :
       /\ ret[p].op = "closeall" /\ ret[p].closeErr # NoErr
       /\ \E h \in HandleIds : h # ret[p].closeErr /\ handles[h].failed
       /\ \A k \in Keys : conns[k] = NoDB

\* ---- preflight requests (checked under SpecServer) ----

\* an OPTIONS request the mux matched to a registered pattern is in progress
\* or has been answered
PreflightRequest ==
    /\ spc \in {"serving", "done"}
    /\ sreq.method = "OPTIONS"
    /\ muxPattern # NoPattern

\* C32: an OPTIONS request to a registered pattern is answered 200 by the
\* CORS stage: no stage after it begins for the request (in the assembled
\* server neither WorkingDirectory, auth, the tenant stage, the dispatcher nor
\* a handler; only Logging runs, before it), nothing of the request but its
\* method is read, the registry is neither read nor written, the context
\* stays empty and no error is translated.
C32_PreflightAnsweredByCORS ==
    PreflightRequest =>
       /\ \A i \in EventsOf("in") :
             events[i].who = "CORSMiddleware" =>
                \A j \in (i + 1)..Len(events) :
                   events[j].ev \notin {"in", "dispatch", "handler", "call"}
       /\ Assembled =>
             /\ \A i \in 1..Len(events) :
                   events[i].who \in {"LoggingMiddleware", "CORSMiddleware"}
             /\ projectDBs = atStart.projectDBs /\ opened = atStart.opened
             /\ ctx = NoContext /\ translations = <<>>
             /\ sreq.body = UnreadBody /\ sreq.query = UnreadQuery
             /\ spc = "done" =>
                   /\ w.status = StatusOK
                   /\ CORSHeaders \subseteq w.header
                   /\ \E i \in EventsOf("write") :
                         events[i] = Ev("write", "CORSMiddleware", StatusOK)

\* an OPTIONS request to /api/db was answered 200 by the assembled server
C32_Witness ==
    /\ PreflightRequest /\ Assembled /\ spc = "done"
    /\ sreq.path = ApiDb
    /\ w.status = StatusOK
    /\ \E i \in EventsOf("out") : events[i].who = "CORSMiddleware"

\* ---- project-management requests (checked under SpecServer) ----

\* a POST whose JSON body names one of the four project-management actions,
\* however the body was sent
SkipActionPost ==
    /\ spc \in {"serving", "done"}
    /\ sreq.method = "POST"
    /\ sreq.body.present /\ sreq.body.readable /\ sreq.body.jsonok
    /\ sreq.body.action \in {"create_project", "list_projects", "delete_project",
                             "get_project"}

\* C33 as stated: for a POST whose JSON body action is a project-management
\* action the tenant middleware calls the next stage without resolving a
\* connection: no registry read or write and no NewDB call are made, no
\* connection is bound, and the body the stages after it read is the body the
\* client sent, unread.
C33_SkipActionsPassUnresolved ==
    (SkipActionPost /\ TenantRan) =>
       /\ TenantCalledNext
       /\ ~RegistryTouched
       /\ projectDBs = atStart.projectDBs /\ opened = atStart.opened
       /\ ctx.db = NoHandle
       /\ sreq.body \in Bodies

\* ---- requests that bypassed authentication (checked under SpecServer) ----

\* the auth stage has passed the request on because its path is excluded
AuthBypassed ==
    /\ spc \in {"serving", "done"}
    /\ Excluded(Text(sreq.path))
    /\ \E i \in EventsOf("in") : events[i].who = "auth.Middleware"

\* C34: in the assembled server a request that bypassed authentication has
\* no identity in its context, so the tenant middleware, unless the request
\* is a POST whose body action is a project-management action, fails it with
\* 400 without a registry access, and no terminal handler runs for it.
C34_BypassedRequestsFail400 ==
    (Assembled /\ AuthBypassed) =>
       /\ ctx.user = CtxAbsent
       /\ (TenantRan /\ ~SkipActionPost) =>
             /\ TenantReturnedEarly
             /\ Answered400
             /\ ~RegistryTouched /\ ctx.db = NoHandle
             /\ EventsOf("handler") = {} /\ EventsOf("dispatch") = {}
       /\ spc = "done" => TenantRan

\* GET /favicon.ico went through the auth stage unauthenticated and was
\* answered 400 by the tenant middleware's failure
C34_Witness ==
    /\ Assembled /\ AuthBypassed /\ spc = "done"
    /\ sreq.method = "GET" /\ sreq.path = Favicon
    /\ TenantReturnedEarly
    /\ w.status = StatusBadRequest /\ w.body = <<"Missing user context\n">>

\* ---- the error translator (checked under SpecServer) ----

\* C35: handleError is called at most once for a request.  A terminal
\* handler's failure is translated inside the dispatcher, after which the
\* chain is returned nil, so the outermost boundary does not translate it
\* again; a middleware's failure is translated at the outermost boundary
\* only, and then neither the dispatcher nor a handler has run.
C35_AtMostOneTranslation ==
    /\ Len(translations) <= 1
    /\ Cardinality({i \in EventsOf("write") : events[i].who = "handleError"})
          = Len(translations)
    /\ \A i \in 1..Len(translations) :
          /\ translations[i].err # Nil
          /\ translations[i].at = "dispatcher" =>
                /\ EventsOf("handler") # {}
                /\ spc = "serving" => retErr = Nil
          /\ translations[i].at = "finalHandler" =>
                /\ spc = "done" /\ retErr = translations[i].err
                /\ EventsOf("handler") = {} /\ EventsOf("dispatch") = {}
                /\ \E m \in MiddlewareNames : FailedAt(m)
    /\ (spc = "serving" /\ dir = "out" /\ EventsOf("dispatch") # {}) => retErr = Nil
    /\ (spc = "done" /\ retErr # Nil) =>
          /\ Len(translations) = 1 /\ translations[1].at = "finalHandler"

\* DatabaseHandler's failure was translated inside the dispatcher and the
\* request went out through the middlewares to the boundary, which translated
\* nothing
C35_Witness ==
    /\ spc = "done" /\ Len(srv.middlewares) >= 1
    /\ Len(translations) = 1 /\ translations[1].at = "dispatcher"
    /\ translations[1].err.kind = "error"
    /\ \E i \in EventsOf("handler") : events[i].who = "DatabaseHandler"
    /\ w.status = translations[1].err.code

\* ---- method not allowed (checked under SpecServer) ----

\* the dispatcher answered 405 for the request
Answered405ByDispatcher ==
    \E i \in EventsOf("write") : events[i] = Ev("write", "dispatcher", StatusMethodNotAllowed)

\* C36: a request whose method no route of the matched pattern takes is
\* answered 405 only after every middleware registered has run for it and
\* called next; when a middleware returns without calling next the response
\* is what that middleware decided (its failure's status, or the preflight
\* answer) and never the dispatcher's 405.
C36_MethodCheckedAfterMiddlewares ==
    /\ Answered405ByDispatcher =>
          /\ SelectRoute(mux[muxPattern].routes, sreq.method) = 0
          /\ \A d \in 1..Len(chain) :
                \E i \in EventsOf("in"), j \in EventsOf("dispatch") :
                   i < j /\ events[i] = Ev("in", chain[d].mw, d)
          /\ \A m \in MiddlewareNames : ~FailedAt(m)
          /\ EventsOf("handler") = {} /\ translations = <<>>
          /\ spc = "done" => w.status = StatusMethodNotAllowed
    /\ (spc \in {"serving", "done"} /\ \E m \in MiddlewareNames : FailedAt(m)) =>
          /\ ~Answered405ByDispatcher
          /\ spc = "done" =>
                /\ w.status # StatusMethodNotAllowed
                /\ retErr # Nil =>
                      w.status = (IF retErr.kind = "error" THEN retErr.code
                                  ELSE StatusInternalServerError)

\* PUT /api/stats went through the five middlewares of the assembled server
\* and was answered 405 by the dispatcher
C36_Witness ==
    /\ Assembled /\ spc = "done"
    /\ sreq.method = "PUT" /\ sreq.path = ApiStats
    /\ Answered405ByDispatcher
    /\ w.status = StatusMethodNotAllowed
    /\ Cardinality(EventsOf("in")) = 5

\* ---- the refreshed cookie and the re-verification (checked under SpecAuth) ----

\* the request ended in REVERIFY_FAIL
ReverifyFailed == apc = "done" /\ trail # <<>> /\ trail[Len(trail)] = "REVERIFY_FAIL"

\* C37: the refreshed cookie is set on the response after a successful
\* refresh call and before the new access token is re-verified, so it is on
\* the response of a request that ends in REVERIFY_FAIL (401) as well; no
\* cookie is set where the refresh call was not made or failed.
C37_CookieSetBeforeReverify ==
    /\ setCookie # <<>> =>
          /\ refreshCalls = 1 /\ env.refreshOk
          /\ refreshResp = env.resp
          /\ setCookie = <<UpdateAuthCookie(tokenData, cfg.AuthTokenName, cfg.CookieDomain)>>
          /\ tokenData["access_token"] = JStr(refreshResp.AccessToken)
    /\ (refreshCalls = 0 \/ ~env.refreshOk) => setCookie = <<>>
    /\ apc = "reverify" => setCookie # <<>> /\ verifyCalls = 1
    /\ verifyCalls = 2 => setCookie # <<>>
    /\ ReverifyFailed =>
          /\ setCookie # <<>>
          /\ verifyCalls = 2 /\ ~VerifyJWT(refreshResp.AccessToken, jwks)
          /\ Failed(StatusUnauthorized)

\* a request whose refreshed token did not verify was answered 401 with the
\* refreshed cookie on the response
C37_Witness ==
    /\ ReverifyFailed
    /\ result = Unauthorized("Invalid refreshed token")
    /\ Len(setCookie) = 1
    /\ DecodeSteps(setCookie[1].Value).obj["access_token"] = JStr(env.resp.AccessToken)

\* ---- one open at a time (checked under SpecPool) ----

\* where a caller is that has not been let into the registry: not in a
\* call, or waiting for the read or the write lock
Outside == {"idle", "g_rlock", "g_lock", "c_lock", "a_lock"}

C39_EveryCallReturns ==
    \A p \in Procs :
       (pc[p] # "idle") ~> (pc[p] = "idle" /\ rwWriter # p /\ p \notin rwReaders)

\* two callers that both missed the fast path for the same key released the
\* read lock, took the write lock in turn and have both returned, the first
\* by the error path, with the lock free
C39_Witness ==
    \E p, q \in Procs :
       /\ p # q /\ opKey[p] = opKey[q]
       /\ ret[p].op = "get" /\ ret[p].slow /\ ret[p].err
       /\ ret[q].op = "get" /\ ret[q].slow /\ ~ret[q].err
       /\ overlap
       /\ pc[p] = "idle" /\ pc[q] = "idle"
       /\ rwWriter = NoProc /\ rwReaders = {}

\* ---- the connection DatabaseHandler finds (checked under SpecServer) ----

\* DatabaseHandler has run for the request and decoded from its body an
\* action that is none of the four project-management actions
DispatchedDatabaseAction ==
    /\ spc \in {"serving", "done"}
    /\ \E i \in EventsOf("handler") : events[i].who = "DatabaseHandler"
    /\ sreq.body.present /\ ~sreq.body.drained
    /\ sreq.body.readable /\ sreq.body.jsonok
    /\ sreq.body.action \notin {"create_project", "list_projects", "delete_project",
                                "get_project"}

\* C40: in the assembled server, whenever DatabaseHandler dispatches an
\* action that is none of the four project-management actions (get_tables
\* is such an action), the request context holds a connection: the one the
\* registry holds under the key the tenant middleware built for the request.
\* A request of this kind for which the tenant middleware bound no connection
\* was failed by it, and DatabaseHandler did not run.
C40_HandlerFindsConnection ==
    Assembled =>
       /\ DispatchedDatabaseAction =>
             /\ ctx.db # NoHandle
             /\ [key |-> RequestKey, db |-> ctx.db] \in projectDBs
             /\ TenantCalledNext
       /\ (TenantRan /\ ctx.db = NoHandle /\ ~ProjectManagementPost) =>
             /\ TenantReturnedEarly
             /\ EventsOf("handler") = {}

\* DatabaseHandler dispatched get_tables for an authenticated request with
\* the connection of the request's project in the context
C40_Witness ==
    /\ Assembled /\ spc = "done" /\ DispatchedDatabaseAction
    /\ sreq.body.action = "get_tables"
    /\ ctx.user = CtxString(U1)
    /\ [key |-> DBKey(U1, P1), db |-> ctx.db] \in projectDBs
    /\ w.status = StatusOK

====
